---- MODULE Spec2Model ----
(***************************************************************************)
(* A model of the smart-data-sanitizer core: the Replacer and its          *)
(* consistency cache, the regex detectors, and the Sanitizer's value       *)
(* walker.  Strings are sequences of one-character strings, so that        *)
(* slicing, case mapping, splitting and regex matching are computed and    *)
(* not assumed.                                                            *)
(***************************************************************************)
EXTENDS Integers, Sequences, FiniteSets, TLC

VARIABLES
    faker_random,   \* state of the random generator every Faker instance shares
    replacers,      \* the Replacer instances constructed so far
    returned,       \* per instance: (original, pii_type) -> the value its first call returned
    newest,         \* per instance: the key whose fake was generated last
    last_call,      \* the latest replace call and what it returned
    ncalls,         \* replace calls made so far
    last_detect,    \* the latest detect call on a detector and what it returned
    sanitizer,      \* the Sanitizer in use
    runs,           \* per Sanitizer constructed: its seed, detectors and sanitize calls
    processed,      \* the string leaves the Sanitizer in use has processed
    files,          \* the file system: path -> what is there
    file_calls,     \* the sanitize_file calls made: paths and the result returned
    callers         \* per thread inside get_or_create_replacement: where it is

vars == <<faker_random, replacers, returned, newest, last_call, ncalls,
          last_detect, sanitizer, runs, processed, files, file_calls, callers>>

(***************************************************************************)
(* Bounds of the model.                                                    *)
(***************************************************************************)
\* the shared generator cycles through this many states
RandomPeriod == 3
\* seeds a Replacer may be constructed with are 0..MaxSeed
MaxSeed == 1
\* Replacer instances alive in one behaviour
MaxReplacers == 2
\* replace calls observed in one behaviour
MaxCalls == 3

\* Replacer(seed=None)
NoSeed == -1

(***************************************************************************)
(* Python's str operations, on sequences of characters.                    *)
(***************************************************************************)
Lowers == <<"a","b","c","d","e","f","g","h","i","j","k","l","m",
            "n","o","p","q","r","s","t","u","v","w","x","y","z">>
Uppers == <<"A","B","C","D","E","F","G","H","I","J","K","L","M",
            "N","O","P","Q","R","S","T","U","V","W","X","Y","Z">>
LowerSet == {Lowers[i] : i \in 1..Len(Lowers)}
UpperSet == {Uppers[i] : i \in 1..Len(Uppers)}
DigitSet == {"0","1","2","3","4","5","6","7","8","9"}
Whitespace == {" ", "\t", "\n"}

IndexIn(c, seq) == CHOOSE i \in 1..Len(seq) : seq[i] = c

char_lower(c) == IF c \in UpperSet THEN Lowers[IndexIn(c, Uppers)] ELSE c
char_upper(c) == IF c \in LowerSet THEN Uppers[IndexIn(c, Lowers)] ELSE c

\* str.lower()
str_lower(s) == IF s = <<>> THEN <<>> ELSE [i \in 1..Len(s) |-> char_lower(s[i])]
\* str.upper()
str_upper(s) == IF s = <<>> THEN <<>> ELSE [i \in 1..Len(s) |-> char_upper(s[i])]
\* str.isupper(): at least one cased character and no lowercase one
str_isupper(s) ==
    /\ \E i \in 1..Len(s) : s[i] \in UpperSet
    /\ \A i \in 1..Len(s) : s[i] \notin LowerSet
\* str.islower(): at least one cased character and no uppercase one
str_islower(s) ==
    /\ \E i \in 1..Len(s) : s[i] \in LowerSet
    /\ \A i \in 1..Len(s) : s[i] \notin UpperSet
\* str.isdigit()
str_isdigit(s) == s # <<>> /\ \A i \in 1..Len(s) : s[i] \in DigitSet

\* s[a:b] with Python's 0-based, clamped bounds (a, b >= 0)
Slice(s, a, b) ==
    LET lo == IF a > Len(s) THEN Len(s) ELSE a
        hi == IF b > Len(s) THEN Len(s) ELSE b
    IN  IF hi <= lo THEN <<>> ELSE SubSeq(s, lo + 1, hi)

\* str.split(): maximal runs of non-whitespace characters
RECURSIVE SplitFrom(_, _, _, _)
SplitFrom(s, i, cur, acc) ==
    IF i > Len(s)
    THEN IF cur = <<>> THEN acc ELSE Append(acc, cur)
    ELSE IF s[i] \in Whitespace
         THEN SplitFrom(s, i + 1, <<>>, IF cur = <<>> THEN acc ELSE Append(acc, cur))
         ELSE SplitFrom(s, i + 1, Append(cur, s[i]), acc)
str_split(s) == SplitFrom(s, 1, <<>>, <<>>)

\* re.sub(r"\D", "", s): the digits of s, in order
digits_of(s) == SelectSeq(s, LAMBDA c : c \in DigitSet)

\* a dict as a function; insertion or overwrite of one key
EmptyMap == [k \in {} |-> <<>>]
Put(m, k, v) == [x \in (DOMAIN m) \cup {k} |-> IF x = k THEN v ELSE m[x]]

(***************************************************************************)
(* PIIType (models.py).                                                    *)
(***************************************************************************)
EMAIL == "email"
PHONE == "phone"
FULL_NAME == "full_name"
FIRST_NAME == "first_name"
LAST_NAME == "last_name"
CREDIT_CARD == "credit_card"
PIIType == {EMAIL, PHONE, FULL_NAME, FIRST_NAME, LAST_NAME, CREDIT_CARD}
\* a pii_type outside the enumeration, for the dispatch's fallback branch
UNKNOWN_TYPE == "unknown"

(***************************************************************************)
(* Faker.  Every Faker() instance draws from one process-wide random       *)
(* generator; Faker.seed(seed) reseeds that shared generator.  A provider  *)
(* call picks an element of its pool from the generator state and          *)
(* advances the state.                                                     *)
(***************************************************************************)
s_Amy == <<"A","m","y">>
s_Bob == <<"B","o","b">>
s_Cyd == <<"C","y","d">>
s_Fox == <<"F","o","x">>
s_Gil == <<"G","i","l">>
s_x_y_io == <<"x","@","y",".","i","o">>
s_z_w_co == <<"z","@","w",".","c","o">>
f_5550101234 == <<"5","5","5","-","0","1","0","-","1","2","3","4">>
f_p15550109999 == <<"+","1","-","5","5","5","-","0","1","0","-","9","9","9","9">>
f_5550107777x12 == <<"(","5","5","5",")","0","1","0","-","7","7","7","7","x","1","2">>
f_4111111111111111 == <<"4","1","1","1","1","1","1","1","1","1","1","1","1","1","1","1">>
f_4222222222222 == <<"4","2","2","2","2","2","2","2","2","2","2","2","2">>

FirstNamePool == <<s_Amy, s_Bob, s_Cyd>>
LastNamePool == <<s_Fox, s_Gil>>
EmailPool == <<s_x_y_io, s_z_w_co>>
PhonePool == <<f_5550101234, f_p15550109999, f_5550107777x12>>
CardPool == <<f_4111111111111111, f_4222222222222>>

Seeds == 0..MaxSeed
RandomStates == 0..(RandomPeriod - 1)

\* Faker.seed(seed): the state the shared generator is put in
faker_seed(seed) == seed % RandomPeriod
\* one provider call: the value drawn and the generator state after it
faker_draw(pool, rnd) ==
    [value |-> pool[(rnd % Len(pool)) + 1], rnd |-> (rnd + 1) % RandomPeriod]
\* faker.name(): a first name and a last name
faker_name(rnd) ==
    LET f == faker_draw(FirstNamePool, rnd)
        l == faker_draw(LastNamePool, f.rnd)
    IN  [value |-> f.value \o <<" ">> \o l.value, rnd |-> l.rnd]

(***************************************************************************)
(* Replacer (replacer.py).  A Replacer is its three maps; every operation  *)
(* takes the instance and the shared generator state and returns the       *)
(* value, the instance and the generator state after it.                   *)
(***************************************************************************)
NewReplacerState ==
    [cache |-> EmptyMap, first_name_map |-> EmptyMap, last_name_map |-> EmptyMap]

Ret(value, rep, rnd) == [value |-> value, rep |-> rep, rnd |-> rnd]

\* a mutation of _preserve_case: the fake is returned as generated
preserve_case_none(original, fake) == fake

_preserve_case(original, fake) ==
    IF str_isupper(original) THEN str_upper(fake)
    ELSE IF str_islower(original) THEN str_lower(fake)
    ELSE fake

_generate_email(rep, rnd) ==
    LET d == faker_draw(EmailPool, rnd) IN Ret(d.value, rep, d.rnd)

_generate_credit_card(rep, rnd) ==
    LET d == faker_draw(CardPool, rnd) IN Ret(d.value, rep, d.rnd)

\* a mutation of _generate_phone: the generated number is returned as it is
generate_phone_as_generated(rep, rnd, original) ==
    LET d == faker_draw(PhonePool, rnd) IN Ret(d.value, rep, d.rnd)

_generate_phone(rep, rnd, original) ==
    LET d == faker_draw(PhonePool, rnd)
        fake_phone == d.value
        digits == digits_of(fake_phone)
        has(c) == \E i \in 1..Len(original) : original[i] = c
    IN  IF has("+") /\ has("-")
        THEN Ret(fake_phone, rep, d.rnd)
        ELSE IF has("(") /\ has(")")
        THEN IF Len(digits) >= 10
             THEN Ret(<<"(">> \o Slice(digits, 0, 3) \o <<")", " ">>
                      \o Slice(digits, 3, 6) \o <<"-">> \o Slice(digits, 6, 10),
                      rep, d.rnd)
             ELSE Ret(fake_phone, rep, d.rnd)
        ELSE IF has("-")
        THEN IF Len(digits) >= 10
             THEN Ret(Slice(digits, 0, 3) \o <<"-">> \o Slice(digits, 3, 6)
                      \o <<"-">> \o Slice(digits, 6, 10), rep, d.rnd)
             ELSE Ret(fake_phone, rep, d.rnd)
        ELSE IF str_isdigit(original)
        THEN Ret(Slice(digits, 0, Len(original)), rep, d.rnd)
        ELSE Ret(fake_phone, rep, d.rnd)

\* a mutation of _generate_first_name: the map entry is written on every call
generate_first_name_overwrite(rep, rnd, original) ==
    LET normalized == str_lower(original)
        d == faker_draw(FirstNamePool, rnd)
        rep1 == [rep EXCEPT !.first_name_map = Put(@, normalized, d.value)]
    IN  Ret(_preserve_case(original, d.value), rep1, d.rnd)

\* a mutation of _generate_first_name: the first-name map is not consulted
generate_first_name_unmapped(rep, rnd, original) ==
    LET d == faker_draw(FirstNamePool, rnd)
    IN  Ret(_preserve_case(original, d.value), rep, d.rnd)

_generate_first_name(rep, rnd, original) ==
    LET normalized == str_lower(original)
        miss == normalized \notin DOMAIN rep.first_name_map
        d == faker_draw(FirstNamePool, rnd)
        rep1 == IF miss
                THEN [rep EXCEPT !.first_name_map = Put(@, normalized, d.value)]
                ELSE rep
        rnd1 == IF miss THEN d.rnd ELSE rnd
        fake_name == rep1.first_name_map[normalized]
    IN  Ret(_preserve_case(original, fake_name), rep1, rnd1)

_generate_last_name(rep, rnd, original) ==
    LET normalized == str_lower(original)
        miss == normalized \notin DOMAIN rep.last_name_map
        d == faker_draw(LastNamePool, rnd)
        rep1 == IF miss
                THEN [rep EXCEPT !.last_name_map = Put(@, normalized, d.value)]
                ELSE rep
        rnd1 == IF miss THEN d.rnd ELSE rnd
        fake_name == rep1.last_name_map[normalized]
    IN  Ret(_preserve_case(original, fake_name), rep1, rnd1)

\* a mutation of _generate_full_name: the name maps are never consulted
generate_full_name_unlinked(rep, rnd, original) ==
    LET n == faker_name(rnd)
    IN  Ret(_preserve_case(original, n.value), rep, n.rnd)

_generate_full_name(rep, rnd, original) ==
    LET words == str_split(original)
    IN  IF Len(words) >= 2
        THEN LET first_normalized == str_lower(words[1])
                 last_normalized == str_lower(words[Len(words)])
                 has_first == first_normalized \in DOMAIN rep.first_name_map
                 has_last == last_normalized \in DOMAIN rep.last_name_map
                 \* the first name is drawn before the last name when both are new
                 df == faker_draw(FirstNamePool, rnd)
                 rndF == IF has_first THEN rnd ELSE df.rnd
                 dl == faker_draw(LastNamePool, rndF)
                 rndL == IF has_last THEN rndF ELSE dl.rnd
                 rep1 == IF has_first THEN rep
                         ELSE [rep EXCEPT !.first_name_map =
                                              Put(@, first_normalized, df.value)]
                 rep2 == IF has_last THEN rep1
                         ELSE [rep1 EXCEPT !.last_name_map =
                                               Put(@, last_normalized, dl.value)]
                 fake_first == rep2.first_name_map[first_normalized]
                 fake_last == rep2.last_name_map[last_normalized]
                 fake_name == fake_first \o <<" ">> \o fake_last
             IN  Ret(_preserve_case(original, fake_name), rep2, rndL)
        ELSE LET n == faker_name(rnd)
             IN  Ret(_preserve_case(original, n.value), rep, n.rnd)

s_REDACTED == <<"[","R","E","D","A","C","T","E","D","]">>

\* the generator dispatch of get_or_create_replacement (the cache miss path)
generate_by_type(rep, rnd, original, pii_type) ==
    IF pii_type = EMAIL THEN _generate_email(rep, rnd)
    ELSE IF pii_type = PHONE THEN _generate_phone(rep, rnd, original)
    ELSE IF pii_type = FULL_NAME THEN _generate_full_name(rep, rnd, original)
    ELSE IF pii_type = FIRST_NAME THEN _generate_first_name(rep, rnd, original)
    ELSE IF pii_type = LAST_NAME THEN _generate_last_name(rep, rnd, original)
    ELSE IF pii_type = CREDIT_CARD THEN _generate_credit_card(rep, rnd)
    ELSE Ret(s_REDACTED, rep, rnd)

\* a mutation of get_or_create_replacement: the cache is written, never read
get_or_create_replacement_uncached(rep, rnd, original, pii_type) ==
    LET g == generate_by_type(rep, rnd, original, pii_type)
    IN  Ret(g.value, [g.rep EXCEPT !.cache = Put(@, <<original, pii_type>>, g.value)],
            g.rnd)

\* a mutation of get_or_create_replacement: the fake is generated before the
\* cache is consulted
get_or_create_replacement_eager(rep, rnd, original, pii_type) ==
    LET cache_key == <<original, pii_type>>
        g == generate_by_type(rep, rnd, original, pii_type)
    IN  IF cache_key \in DOMAIN rep.cache
        THEN Ret(rep.cache[cache_key], g.rep, g.rnd)
        ELSE Ret(g.value, [g.rep EXCEPT !.cache = Put(@, cache_key, g.value)], g.rnd)

get_or_create_replacement(rep, rnd, original, pii_type) ==
    LET cache_key == <<original, pii_type>>
    IN  IF cache_key \in DOMAIN rep.cache
        THEN Ret(rep.cache[cache_key], rep, rnd)
        ELSE LET g == generate_by_type(rep, rnd, original, pii_type)
             IN  Ret(g.value,
                     [g.rep EXCEPT !.cache = Put(@, cache_key, g.value)],
                     g.rnd)

\* Replacer.replace(detection)
replace(rep, rnd, detection) ==
    get_or_create_replacement(rep, rnd, detection.original_value, detection.pii_type)

\* a mutation of Replacer.__init__: the seed is ignored
replacer_init_unseeded(seed, rnd) == rnd

\* Replacer.__init__: the shared generator state after construction
replacer_init(seed, rnd) == IF seed # NoSeed THEN faker_seed(seed) ELSE rnd

(***************************************************************************)
(* Regular expressions (Python's re), for the patterns the detectors use:  *)
(* an alternation of sequences of greedily quantified character classes    *)
(* and \b assertions, matched with backtracking in priority order.         *)
(***************************************************************************)
WordChars == LowerSet \cup UpperSet \cup DigitSet \cup {"_"}

\* cls{min,max}; max = Unbounded for + and {n,}
Unbounded == -1
Cls(cls, min, max) == [kind |-> "cls", cls |-> cls, min |-> min, max |-> max]
Lit(c) == Cls({c}, 1, 1)
Opt(cls) == Cls(cls, 0, 1)
WordBoundary == [kind |-> "b", cls |-> {}, min |-> 0, max |-> 0]

\* \b at offset i: exactly one of the characters before and after is a word character
AtWordBoundary(text, i) ==
    LET before == i > 0 /\ text[i] \in WordChars
        after == i < Len(text) /\ text[i + 1] \in WordChars
    IN  before # after

\* how many characters from offset i on are in cls, up to limit
RunLength(text, i, cls, limit) ==
    LET cap == IF limit = Unbounded \/ limit > Len(text) - i THEN Len(text) - i ELSE limit
        ok(n) == \A j \in 1..n : text[i + j] \in cls
    IN  CHOOSE n \in 0..cap : ok(n) /\ (n = cap \/ text[i + n + 1] \notin cls)

RECURSIVE MatchFrom(_, _, _, _)
RECURSIVE TryCounts(_, _, _, _, _)
\* the end offset of the first match, in backtracking order, of items k.. of
\* pat at offset i; -1 when there is none
MatchFrom(pat, k, text, i) ==
    IF k > Len(pat) THEN i
    ELSE IF pat[k].kind = "b"
    THEN IF AtWordBoundary(text, i) THEN MatchFrom(pat, k + 1, text, i) ELSE -1
    ELSE TryCounts(pat, k, text, i, RunLength(text, i, pat[k].cls, pat[k].max))
\* greedy: the longest run first, then shorter ones down to min
TryCounts(pat, k, text, i, n) ==
    IF n < pat[k].min THEN -1
    ELSE LET e == MatchFrom(pat, k + 1, text, i + n)
         IN  IF e # -1 THEN e ELSE TryCounts(pat, k, text, i, n - 1)

RECURSIVE MatchAlts(_, _, _, _)
\* alternatives are tried in order
MatchAlts(alts, a, text, i) ==
    IF a > Len(alts) THEN -1
    ELSE LET e == MatchFrom(alts[a], 1, text, i)
         IN  IF e # -1 THEN e ELSE MatchAlts(alts, a + 1, text, i)

RECURSIVE FindIterFrom(_, _, _, _)
FindIterFrom(alts, text, i, acc) ==
    IF i > Len(text) THEN acc
    ELSE LET e == MatchAlts(alts, 1, text, i)
         IN  IF e > i
             THEN FindIterFrom(alts, text, e, Append(acc, [start |-> i, end |-> e]))
             ELSE FindIterFrom(alts, text, i + 1, acc)
\* pattern.finditer(text): the non-overlapping matches, left to right
finditer(alts, text) == FindIterFrom(alts, text, 0, <<>>)

\* list.sort(key=...) with Python's stable sort; keys[i] is the key of seq[i],
\* a pair compared lexicographically
KeyLess(k1, k2) == k1[1] < k2[1] \/ (k1[1] = k2[1] /\ k1[2] < k2[2])
StableSortByKey(seq, keys) ==
    LET n == Len(seq)
        rank(i) == 1 + Cardinality({j \in 1..n :
                            \/ KeyLess(keys[j], keys[i])
                            \/ (keys[j] = keys[i] /\ j < i)})
    IN  [r \in 1..n |-> seq[CHOOSE i \in 1..n : rank(i) = r]]

(***************************************************************************)
(* DetectionResult (models.py) and the regex detectors (detectors/).       *)
(***************************************************************************)
DetectionResult(pii_type, original_value, confidence, start_pos, end_pos) ==
    [pii_type |-> pii_type, original_value |-> original_value,
     confidence |-> confidence, start_pos |-> start_pos, end_pos |-> end_pos]

\* confidence, in hundredths: 1.0
FullConfidence == 100

\* a mutation of match.group(0): the separators are dropped from the value
group0_digits(text, m) == digits_of(Slice(text, m.start, m.end))

\* match.group(0)
Group0(text, m) == Slice(text, m.start, m.end)

\* EmailDetector.EMAIL_PATTERN
EmailLocalChars == LowerSet \cup UpperSet \cup DigitSet \cup {".", "_", "%", "+", "-"}
EmailDomainChars == LowerSet \cup UpperSet \cup DigitSet \cup {".", "-"}
EmailTldChars == LowerSet \cup UpperSet \cup {"|"}
EMAIL_PATTERN ==
    << <<WordBoundary, Cls(EmailLocalChars, 1, Unbounded), Lit("@"),
         Cls(EmailDomainChars, 1, Unbounded), Lit("."),
         Cls(EmailTldChars, 2, Unbounded), WordBoundary>> >>

\* EmailDetector.detect
email_detect(text) ==
    LET ms == finditer(EMAIL_PATTERN, text)
    IN  [i \in 1..Len(ms) |->
            DetectionResult(EMAIL, Group0(text, ms[i]), FullConfidence,
                            ms[i].start, ms[i].end)]

\* CreditCardDetector.CARD_PATTERN
CardSep == Whitespace \cup {"-"}
CARD_PATTERN ==
    << <<WordBoundary, Cls(DigitSet, 4, 4), Opt(CardSep), Cls(DigitSet, 4, 4),
         Opt(CardSep), Cls(DigitSet, 4, 4), Opt(CardSep), Cls(DigitSet, 3, 7),
         WordBoundary>>,
       <<WordBoundary, Cls(DigitSet, 4, 4), Opt(CardSep), Cls(DigitSet, 6, 6),
         Opt(CardSep), Cls(DigitSet, 5, 5), WordBoundary>> >>

Digits == <<"0","1","2","3","4","5","6","7","8","9">>
\* int(d)
DigitValue(d) == IndexIn(d, Digits) - 1

RECURSIVE SumSeq(_)
SumSeq(s) == IF s = <<>> THEN 0 ELSE s[1] + SumSeq(Tail(s))

\* CreditCardDetector._luhn_check
_luhn_check(card_number) ==
    IF ~str_isdigit(card_number) THEN FALSE
    ELSE LET n == Len(card_number)
             \* digits[i] of the reversed number, i from 0
             reversed == [i \in 1..n |-> DigitValue(card_number[n + 1 - i])]
             doubled == [i \in 1..n |->
                            IF (i - 1) % 2 = 1
                            THEN IF reversed[i] * 2 > 9 THEN reversed[i] * 2 - 9
                                 ELSE reversed[i] * 2
                            ELSE reversed[i]]
         IN  SumSeq(doubled) % 10 = 0

MinCardDigits == 13
MaxCardDigits == 19

\* CreditCardDetector.detect
credit_card_detect(text) ==
    LET ms == finditer(CARD_PATTERN, text)
        digits_only(m) == SelectSeq(Group0(text, m), LAMBDA c : c \notin CardSep)
        keep == SelectSeq(ms, LAMBDA m :
                    /\ MinCardDigits <= Len(digits_only(m))
                    /\ Len(digits_only(m)) <= MaxCardDigits
                    /\ _luhn_check(digits_only(m)))
    IN  [i \in 1..Len(keep) |->
            DetectionResult(CREDIT_CARD, Group0(text, keep[i]), FullConfidence,
                            keep[i].start, keep[i].end)]

\* PhoneDetector.PHONE_PATTERNS
PhoneSep == {"-", "."} \cup Whitespace
PHONE_PATTERNS ==
    << << <<Lit("+"), Cls(DigitSet, 1, 3), Opt(PhoneSep), Opt({"("}),
            Cls(DigitSet, 1, 4), Opt({")"}), Opt(PhoneSep), Cls(DigitSet, 1, 4),
            Opt(PhoneSep), Cls(DigitSet, 1, 4), Opt(PhoneSep), Cls(DigitSet, 1, 4)>> >>,
       << <<Lit("("), Cls(DigitSet, 3, 3), Lit(")"), Opt(Whitespace),
            Cls(DigitSet, 3, 3), Opt(PhoneSep), Cls(DigitSet, 4, 4)>> >>,
       << <<WordBoundary, Cls(DigitSet, 3, 3), Cls(PhoneSep, 1, 1),
            Cls(DigitSet, 3, 3), Cls(PhoneSep, 1, 1), Cls(DigitSet, 4, 4),
            WordBoundary>> >>,
       << <<WordBoundary, Cls(DigitSet, 10, 15), WordBoundary>> >> >>

MinPhoneDigits == 10
MaxPhoneDigits == 15

RECURSIVE PhoneMatchesFrom(_, _)
\* the candidates of patterns p.., each pattern's in finditer order, with a
\* digit count of 10 to 15
PhoneMatchesFrom(text, p) ==
    IF p > Len(PHONE_PATTERNS) THEN <<>>
    ELSE SelectSeq(finditer(PHONE_PATTERNS[p], text),
                   LAMBDA m : /\ Len(digits_of(Group0(text, m))) >= MinPhoneDigits
                              /\ Len(digits_of(Group0(text, m))) <= MaxPhoneDigits)
         \o PhoneMatchesFrom(text, p + 1)
\* all_matches of PhoneDetector.detect, before the sort
phone_all_matches(text) == PhoneMatchesFrom(text, 1)

\* key=lambda x: (x[0], -(x[1] - x[0]))
PhoneSortKey(m) == <<m.start, -(m.end - m.start)>>

SpansOverlap(s1, e1, s2, e2) == ~(e1 <= s2 \/ s1 >= e2)

\* a mutation of the overlap filter: every candidate is accepted
phone_select_all(sorted, k, used) ==
    IF k > Len(sorted) THEN used ELSE used \o SubSeq(sorted, k, Len(sorted))

RECURSIVE phone_select(_, _, _)
\* the loop over the sorted candidates: a candidate is accepted when it
\* overlaps no accepted one
phone_select(sorted, k, used) ==
    IF k > Len(sorted) THEN used
    ELSE LET m == sorted[k]
             overlaps == \E u \in 1..Len(used) :
                             SpansOverlap(m.start, m.end, used[u].start, used[u].end)
         IN  phone_select(sorted, k + 1, IF overlaps THEN used ELSE Append(used, m))

\* PhoneDetector.detect
phone_detect(text) ==
    LET all_matches == phone_all_matches(text)
        sorted == StableSortByKey(all_matches,
                      [i \in 1..Len(all_matches) |-> PhoneSortKey(all_matches[i])])
        accepted == phone_select(sorted, 1, <<>>)
        \* results.sort(key=lambda x: x.start_pos)
        results == StableSortByKey(accepted,
                       [i \in 1..Len(accepted) |-> <<accepted[i].start, 0>>])
    IN  [i \in 1..Len(results) |->
            DetectionResult(PHONE, Group0(text, results[i]), FullConfidence,
                            results[i].start, results[i].end)]

(***************************************************************************)
(* NameDetector (detectors/name_detector.py).  The PERSON recognizer is an *)
(* external engine; here it recognizes runs of one or two capitalized      *)
(* words, with a fixed score.                                              *)
(***************************************************************************)
PersonScore == 85
PERSON_PATTERN ==
    << <<WordBoundary, Cls(UpperSet, 1, 1), Cls(LowerSet, 1, Unbounded), Lit(" "),
         Cls(UpperSet, 1, 1), Cls(LowerSet, 1, Unbounded), WordBoundary>>,
       <<WordBoundary, Cls(UpperSet, 1, 1), Cls(LowerSet, 1, Unbounded),
         WordBoundary>> >>
\* self.analyzer.analyze(text=text, language="en", entities=["PERSON"])
analyzer_analyze(text) ==
    LET ms == finditer(PERSON_PATTERN, text)
    IN  [i \in 1..Len(ms) |-> [start |-> ms[i].start, end |-> ms[i].end,
                               score |-> PersonScore]]

h_fullname == <<"f","u","l","l","n","a","m","e">>
h_name == <<"n","a","m","e">>
h_firstname == <<"f","i","r","s","t","n","a","m","e">>
h_fname == <<"f","n","a","m","e">>
h_givenname == <<"g","i","v","e","n","n","a","m","e">>
h_first == <<"f","i","r","s","t">>
h_lastname == <<"l","a","s","t","n","a","m","e">>
h_lname == <<"l","n","a","m","e">>
h_surname == <<"s","u","r","n","a","m","e">>
h_familyname == <<"f","a","m","i","l","y","n","a","m","e">>
h_last == <<"l","a","s","t">>
full_name_hints == {h_fullname, h_name}
first_name_hints == {h_firstname, h_fname, h_givenname, h_first}
last_name_hints == {h_lastname, h_lname, h_surname, h_familyname, h_last}

\* a mutation of _determine_name_type: the word count is looked at first
determine_name_type_words_first(name_text, field_name) ==
    IF Len(str_split(name_text)) >= 2 THEN FULL_NAME
    ELSE LET field_lower == SelectSeq(str_lower(field_name),
                                      LAMBDA c : c \notin {"_", "-"})
         IN  IF field_lower \in full_name_hints THEN FULL_NAME
             ELSE IF field_lower \in last_name_hints THEN LAST_NAME
             ELSE FIRST_NAME

\* NameDetector._determine_name_type
_determine_name_type(name_text, field_name) ==
    LET field_lower == SelectSeq(str_lower(field_name), LAMBDA c : c \notin {"_", "-"})
    IN  IF field_lower \in full_name_hints THEN FULL_NAME
        ELSE IF field_lower \in first_name_hints THEN FIRST_NAME
        ELSE IF field_lower \in last_name_hints THEN LAST_NAME
        ELSE IF Len(str_split(name_text)) >= 2 THEN FULL_NAME
        ELSE FIRST_NAME

\* str.strip() leaves nothing
IsBlank(text) == \A i \in 1..Len(text) : text[i] \in Whitespace

\* NameDetector.detect
name_detect(text, field_name) ==
    IF IsBlank(text) THEN <<>>
    ELSE LET rs == analyzer_analyze(text)
         IN  [i \in 1..Len(rs) |->
                 LET name_text == Slice(text, rs[i].start, rs[i].end)
                 IN  DetectionResult(_determine_name_type(name_text, field_name),
                                     name_text, rs[i].score, rs[i].start, rs[i].end)]

(***************************************************************************)
(* Sanitizer (sanitizer.py).  A JSON value is a node: a string, a mapping  *)
(* (an ordered sequence of key/value items), a sequence, or another leaf   *)
(* (number, boolean, null), kept as its JSON text.                         *)
(***************************************************************************)
JStr(s) == [kind |-> "str", str |-> s, items |-> <<>>]
JLeaf(json) == [kind |-> "leaf", str |-> json, items |-> <<>>]
JList(items) == [kind |-> "list", str |-> <<>>, items |-> items]
JDict(items) == [kind |-> "dict", str |-> <<>>, items |-> items]
Item(key, value) == [key |-> key, value |-> value]

EmailDetector == "EmailDetector"
PhoneDetector == "PhoneDetector"
NameDetector == "NameDetector"
CreditCardDetector == "CreditCardDetector"

\* a Detector subclass from outside the package: it reports the value it
\* looks for, once, when the text holds it, and gives no position
\* (DetectionResult's defaults start_pos = 0 and end_pos = 0)
ValueDetector == "ValueDetector"
reported_value == <<"a","@","b",".","c","o">>
value_detect(text) ==
    IF \E i \in 0..(Len(text) - Len(reported_value)) :
           Slice(text, i, i + Len(reported_value)) = reported_value
    THEN <<DetectionResult(EMAIL, reported_value, FullConfidence, 0, 0)>>
    ELSE <<>>

\* detector.detect(text, field_name)
detect(detector, text, field_name) ==
    IF detector = EmailDetector THEN email_detect(text)
    ELSE IF detector = PhoneDetector THEN phone_detect(text)
    ELSE IF detector = CreditCardDetector THEN credit_card_detect(text)
    ELSE IF detector = NameDetector THEN name_detect(text, field_name)
    ELSE value_detect(text)

RECURSIVE collect_detections(_, _, _, _)
\* the loop over self._detectors: all_detections.extend(detections)
collect_detections(detectors, d, text, field_name) ==
    IF d > Len(detectors) THEN <<>>
    ELSE detect(detectors[d], text, field_name)
         \o collect_detections(detectors, d + 1, text, field_name)

\* str.replace(old, new, 1)
str_replace_first(s, old, new) ==
    LET found == {i \in 0..(Len(s) - Len(old)) : Slice(s, i, i + Len(old)) = old}
    IN  IF found = {} THEN s
        ELSE LET i == CHOOSE x \in found : \A y \in found : x <= y
             IN  Slice(s, 0, i) \o new \o Slice(s, i + Len(old), Len(s))

\* Sanitizer.__init__
NewSanitizerState(detectors, replacer) ==
    [detectors |-> detectors, replacer |-> replacer,
     pii_fields_detected |-> 0, pii_replacements_made |-> 0]

\* the state a sanitize call works on: the Sanitizer, its Replacer, the
\* shared generator, and the (original, pii_type) lookups the call has made
\* on the Replacer so far
Ctx(san, rep, rnd, lookups) ==
    [san |-> san, rep |-> rep, rnd |-> rnd, lookups |-> lookups]
Out(value, ctx) == [value |-> value, ctx |-> ctx]

\* a mutation of the sort in _sanitize_string: ascending start_pos
sort_detections_ascending(all_detections) ==
    StableSortByKey(all_detections,
        [i \in 1..Len(all_detections) |-> <<all_detections[i].start_pos, 0>>])

\* a mutation of the sort: the detections stay in the order of the detectors
sort_detections_unsorted(all_detections) == all_detections

\* all_detections.sort(key=lambda d: d.start_pos, reverse=True)
sort_detections(all_detections) ==
    StableSortByKey(all_detections,
        [i \in 1..Len(all_detections) |-> <<-all_detections[i].start_pos, 0>>])

\* a mutation of the replacement counter: one count per distinct original value
count_replacement_distinct(ctx, detection, already) ==
    IF \E d \in already : d.original_value = detection.original_value
    THEN ctx.san.pii_replacements_made
    ELSE ctx.san.pii_replacements_made + 1

\* self._pii_replacements_made += 1
count_replacement(ctx, detection, already) == ctx.san.pii_replacements_made + 1

\* the element of a one-element set; {e(x) : x \in {v}} binds the value v once
The(S) == CHOOSE x \in S : TRUE

\* a mutation of the replacement in the text: every detection is spliced at
\* its span
splice_by_span(sanitized_text, detection, fake_value) ==
    Slice(sanitized_text, 0, detection.start_pos) \o fake_value
    \o Slice(sanitized_text, detection.end_pos, Len(sanitized_text))

\* the replacement of one detection in the text
splice(sanitized_text, detection, fake_value) ==
    IF detection.start_pos >= 0 /\ detection.end_pos > detection.start_pos
    THEN Slice(sanitized_text, 0, detection.start_pos) \o fake_value
         \o Slice(sanitized_text, detection.end_pos, Len(sanitized_text))
    ELSE str_replace_first(sanitized_text, detection.original_value, fake_value)

RECURSIVE apply_detections(_, _, _, _)
\* the replacement loop of _sanitize_string over the sorted detections
apply_detections(ctx, dets, k, sanitized_text) ==
    IF k > Len(dets) THEN Out(sanitized_text, ctx)
    ELSE The({apply_detections(
                  Ctx([ctx.san EXCEPT !.pii_replacements_made =
                           count_replacement(ctx, dets[k], {dets[j] : j \in 1..(k - 1)})],
                      r.rep, r.rnd,
                      Append(ctx.lookups, <<dets[k].original_value, dets[k].pii_type>>)),
                  dets, k + 1, splice(sanitized_text, dets[k], r.value)) :
              r \in {replace(ctx.rep, ctx.rnd, dets[k])}})

\* a mutation of _sanitize_string: the field is counted before the detections
\* are looked at
sanitize_string_counting_first(ctx, text, field_name) ==
    The({apply_detections(
             Ctx([ctx.san EXCEPT !.pii_fields_detected = @ + 1], ctx.rep, ctx.rnd,
                 ctx.lookups),
             sort_detections(all_detections), 1, text) :
         all_detections \in {collect_detections(ctx.san.detectors, 1, text, field_name)}})

\* Sanitizer._sanitize_string
_sanitize_string(ctx, text, field_name) ==
    The({IF all_detections = <<>> THEN Out(text, ctx)
         ELSE apply_detections(
                  Ctx([ctx.san EXCEPT !.pii_fields_detected = @ + 1], ctx.rep, ctx.rnd,
                      ctx.lookups),
                  sort_detections(all_detections), 1, text) :
         all_detections \in {collect_detections(ctx.san.detectors, 1, text, field_name)}})

RECURSIVE sanitize_value(_, _, _)
RECURSIVE sanitize_items(_, _, _, _, _)
\* a mutation of the loops: the items of a mapping are sanitized under the
\* field name of the mapping
sanitize_items_outer_key(ctx, items, k, field_name, is_dict) ==
    IF k > Len(items) THEN Out(<<>>, ctx)
    ELSE The({The({Out(<<IF is_dict THEN Item(items[k].key, o.value) ELSE o.value>>
                       \o rest.value, rest.ctx) :
                   rest \in {sanitize_items(o.ctx, items, k + 1, field_name, is_dict)}}) :
              o \in {sanitize_value(ctx, IF is_dict THEN items[k].value ELSE items[k],
                                    field_name)}})

\* the loops of sanitize_value and sanitize_records over a mapping's items
\* (each under its own key) or a sequence's elements (all under field_name)
sanitize_items(ctx, items, k, field_name, is_dict) ==
    IF k > Len(items) THEN Out(<<>>, ctx)
    ELSE The({The({Out(<<IF is_dict THEN Item(items[k].key, o.value) ELSE o.value>>
                       \o rest.value, rest.ctx) :
                   rest \in {sanitize_items(o.ctx, items, k + 1, field_name, is_dict)}}) :
              o \in {IF is_dict
                     THEN sanitize_value(ctx, items[k].value, items[k].key)
                     ELSE sanitize_value(ctx, items[k], field_name)}})

\* a mutation of sanitize_value: a leaf that is not a string is returned as a
\* string
sanitize_value_stringify(ctx, value, field_name) ==
    IF value.kind = "leaf" THEN Out(JStr(value.str), ctx)
    ELSE IF value.kind = "str"
    THEN The({Out(JStr(o.value), o.ctx) :
              o \in {_sanitize_string(ctx, value.str, field_name)}})
    ELSE The({Out([value EXCEPT !.items = o.value], o.ctx) :
              o \in {sanitize_items(ctx, value.items, 1, field_name,
                                    value.kind = "dict")}})

\* Sanitizer.sanitize_value
sanitize_value(ctx, value, field_name) ==
    IF value.kind = "str"
    THEN The({Out(JStr(o.value), o.ctx) :
              o \in {_sanitize_string(ctx, value.str, field_name)}})
    ELSE IF value.kind = "dict"
    THEN The({Out(JDict(o.value), o.ctx) :
              o \in {sanitize_items(ctx, value.items, 1, field_name, TRUE)}})
    ELSE IF value.kind = "list"
    THEN The({Out(JList(o.value), o.ctx) :
              o \in {sanitize_items(ctx, value.items, 1, field_name, FALSE)}})
    ELSE Out(value, ctx)

RECURSIVE sanitize_records_from(_, _, _)
sanitize_records_from(ctx, records, k) ==
    IF k > Len(records) THEN Out(<<>>, ctx)
    ELSE The({The({Out(<<JDict(o.value)>> \o rest.value, rest.ctx) :
                   rest \in {sanitize_records_from(o.ctx, records, k + 1)}}) :
              o \in {sanitize_items(ctx, records[k].items, 1, <<>>, TRUE)}})
\* Sanitizer.sanitize_records
sanitize_records(ctx, records) == sanitize_records_from(ctx, records, 1)

(***************************************************************************)
(* The Replacer on its own: replace is called on the first instance with   *)
(* originals of every PII type, while further instances are constructed,   *)
(* each construction reseeding (or not) the generator all instances share. *)
(***************************************************************************)
s_Al == <<"A","l">>
s_al == <<"a","l">>
s_AL == <<"A","L">>
s_al_al == <<"a","l"," ","a","l">>
s_Bo == <<"B","o">>
s_bo == <<"b","o">>
s_Al_Bo == <<"A","l"," ","B","o">>
s_al_bo == <<"a","l"," ","b","o">>
s_Al_bo == <<"A","l"," ","b","o">>
s_AL_BO == <<"A","L"," ","B","O">>
s_al_al_bo == <<"a","l"," ","a","l"," ","b","o">>
s_a_b_co == <<"a","@","b",".","c","o">>
s_5551234567 == <<"5","5","5","1","2","3","4","5","6","7">>
s_555_123_4567 == <<"5","5","5","-","1","2","3","-","4","5","6","7">>
s_p555p_123_4567 == <<"(","5","5","5",")"," ","1","2","3","-","4","5","6","7">>
s_378282246310005 == <<"3","7","8","2","8","2","2","4","6","3","1","0","0","0","5">>

\* the (original, pii_type) pairs replace is called with
ReplaceInputs ==
    ({s_Al, s_al, s_al_al} \X {FIRST_NAME})
    \cup ({s_Bo, s_bo} \X {LAST_NAME})
    \cup ({s_Al_Bo, s_Al_bo, s_AL_BO, s_al_al_bo, s_Al} \X {FULL_NAME})
    \cup ({s_a_b_co} \X {EMAIL})
    \cup ({s_5551234567} \X {PHONE, UNKNOWN_TYPE})

NoDetect == [detector |-> "none", text |-> <<>>, field_name |-> <<>>,
             results |-> <<>>]
NoSanitizer == [detectors |-> <<>>, replacer |-> 0,
                pii_fields_detected |-> 0, pii_replacements_made |-> 0]

\* no file system in use
NoFiles == <<>>
\* no thread in use
NoCallers == <<>>

NoCall == [rep |-> 0, original |-> <<>>, pii_type |-> "none", value |-> <<>>,
           seen_before |-> FALSE, interleaved |-> FALSE]

InitReplacer ==
    \E seed \in Seeds \cup {NoSeed} :
        /\ faker_random \in {replacer_init(seed, r) : r \in RandomStates}
        /\ replacers = <<NewReplacerState>>
        /\ returned = <<EmptyMap>>
        /\ newest = <<"none">>
        /\ last_call = NoCall
        /\ ncalls = 0
        /\ last_detect = NoDetect
        /\ sanitizer = NoSanitizer
        /\ runs = <<>>
        /\ processed = <<>>
        /\ files = NoFiles
        /\ file_calls = <<>>
        /\ callers = NoCallers

\* Replacer(seed)
NewReplacer(seed) ==
    /\ Len(replacers) < MaxReplacers
    /\ faker_random' = replacer_init(seed, faker_random)
    /\ replacers' = Append(replacers, NewReplacerState)
    /\ returned' = Append(returned, EmptyMap)
    /\ newest' = Append(newest, "none")
    /\ UNCHANGED <<last_call, ncalls, last_detect, sanitizer, runs, processed,
                   files, file_calls, callers>>

\* replacers[r].replace(DetectionResult(pii_type, original, ...))
Replace(r, original, pii_type) ==
    /\ ncalls < MaxCalls
    /\ LET key == <<original, pii_type>>
           seen == key \in DOMAIN returned[r]
           res == replace(replacers[r], faker_random,
                          [original_value |-> original, pii_type |-> pii_type])
       IN  /\ replacers' = [replacers EXCEPT ![r] = res.rep]
           /\ faker_random' = res.rnd
           /\ returned' = IF seen THEN returned
                          ELSE [returned EXCEPT ![r] = Put(@, key, res.value)]
           /\ newest' = IF seen THEN newest ELSE [newest EXCEPT ![r] = key]
           /\ last_call' = [rep |-> r, original |-> original, pii_type |-> pii_type,
                            value |-> res.value, seen_before |-> seen,
                            interleaved |-> seen /\ newest[r] # key]
           /\ ncalls' = ncalls + 1
           /\ UNCHANGED <<last_detect, sanitizer, runs, processed,
                   files, file_calls, callers>>

NextReplacer ==
    \/ \E seed \in Seeds \cup {NoSeed} : NewReplacer(seed)
    \/ \E in \in ReplaceInputs : Replace(1, in[1], in[2])

SpecReplacer == InitReplacer /\ [][NextReplacer]_vars

(***************************************************************************)
(* Properties of the Replacer.                                             *)
(***************************************************************************)
LastKey == <<last_call.original, last_call.pii_type>>
NameTypes == {FIRST_NAME, LAST_NAME, FULL_NAME}

\* C1: on one Replacer, every replace call with (v, t) returns the string the
\* first call with (v, t) returned, whatever calls were made in between.
C1_RepeatedCallReturnsFirstValue ==
    last_call.rep # 0 => last_call.value = returned[last_call.rep][LastKey]

\* a repeated call, made after the fake of another key was generated
C1_Witness ==
    /\ last_call.rep # 0
    /\ last_call.seen_before
    /\ last_call.interleaved

KeysKept(before, after) ==
    \A k \in DOMAIN before : k \in DOMAIN after /\ after[k] = before[k]

\* C2: once a key is present in the primary cache, the first-name map or the
\* last-name map of a Replacer, no later operation changes the value stored
\* under it or removes it.
C2_PopulatedKeysNeverChange ==
    [][\A r \in 1..Len(replacers) :
          /\ KeysKept(replacers[r].cache, replacers'[r].cache)
          /\ KeysKept(replacers[r].first_name_map, replacers'[r].first_name_map)
          /\ KeysKept(replacers[r].last_name_map, replacers'[r].last_name_map)]_vars

\* a first-name key populated by one original and looked up again by another
\* original that normalizes to it, and a last-name key used by a full name
C2_Witness ==
    /\ \E k1, k2 \in DOMAIN replacers[1].cache :
          /\ k1 # k2
          /\ k1[2] = FIRST_NAME /\ k2[2] \in {FIRST_NAME, FULL_NAME}
          /\ str_lower(k1[1]) = str_lower(str_split(k2[1])[1])
    /\ ncalls >= 3

\* a name of one token: not empty, no whitespace
IsToken(s) == s # <<>> /\ \A i \in 1..Len(s) : s[i] \notin Whitespace
EntirelyUpper(s) ==
    (\E i \in 1..Len(s) : s[i] \in UpperSet) /\ (\A i \in 1..Len(s) : s[i] \notin LowerSet)
EntirelyLower(s) ==
    (\E i \in 1..Len(s) : s[i] \in LowerSet) /\ (\A i \in 1..Len(s) : s[i] \notin UpperSet)
CaseClass(s) ==
    IF EntirelyUpper(s) THEN "upper" ELSE IF EntirelyLower(s) THEN "lower" ELSE "other"

\* the pairs (F as FIRST_NAME, L as LAST_NAME) already replaced on the instance
\* of the latest call whose "F L" is the original of that call
LinkedPairs ==
    {p \in (DOMAIN returned[last_call.rep]) \X (DOMAIN returned[last_call.rep]) :
        /\ p[1][2] = FIRST_NAME
        /\ p[2][2] = LAST_NAME
        /\ last_call.original = p[1][1] \o <<" ">> \o p[2][1]}

Range(seq) == {seq[i] : i \in 1..Len(seq)}
\* what the generator produces for a name type, in the generator's casing
GeneratedNames(pii_type) ==
    IF pii_type = FIRST_NAME THEN Range(FirstNamePool)
    ELSE IF pii_type = LAST_NAME THEN Range(LastNamePool)
    ELSE {f \o <<" ">> \o l : f \in Range(FirstNamePool), l \in Range(LastNamePool)}

\* C4: for every FIRST_NAME, LAST_NAME or FULL_NAME replacement, an entirely
\* uppercase original gets an entirely uppercase fake, an entirely lowercase
\* original an entirely lowercase fake, and any other original the fake in
\* the generator's casing, unchanged.
C4_CasePreserved ==
    (last_call.rep # 0 /\ last_call.pii_type \in NameTypes) =>
        /\ EntirelyUpper(last_call.original) => EntirelyUpper(last_call.value)
        /\ EntirelyLower(last_call.original) => EntirelyLower(last_call.value)
        /\ CaseClass(last_call.original) = "other" =>
               last_call.value \in GeneratedNames(last_call.pii_type)

\* an all-uppercase full name replaced through the name maps
C4_Witness ==
    /\ last_call.rep # 0
    /\ last_call.pii_type = FULL_NAME
    /\ EntirelyUpper(last_call.original)
    /\ EntirelyUpper(last_call.value)
    /\ \E k \in DOMAIN returned[last_call.rep] :
          k[2] = LAST_NAME /\ EntirelyLower(k[1])

(***************************************************************************)
(* The detectors on their own: detect is called on one detector at a time  *)
(* with texts built from a few pieces.                                     *)
(***************************************************************************)
\* digits of a card text that range over all of 0..9
FreeDigits == 1

t_card_stem == <<"4","2","2","2","2","2","2","2","2","2","2","2","2","2","2","2","2","2","2","2">>
t_4111_1111_1111_1111 == <<"4","1","1","1"," ","1","1","1","1"," ","1","1","1","1"," ","1","1","1","1">>
t_4111d1111d1111d1111 == <<"4","1","1","1","-","1","1","1","1","-","1","1","1","1","-","1","1","1","1">>
t_3782_822463_10005 == <<"3","7","8","2"," ","8","2","2","4","6","3"," ","1","0","0","0","5">>
t_card_4111111111111111 == <<"c","a","r","d"," ","4","1","1","1","1","1","1","1","1","1","1","1","1","1","1","1",".">>
t_x4111111111111111 == <<"x","4","1","1","1","1","1","1","1","1","1","1","1","1","1","1","1">>

\* strings of digits, one shorter than the shortest card up to one longer than
\* the longest, whose last FreeDigits digits are arbitrary
CardDigitTexts ==
    {Slice(t_card_stem, 0, n - FreeDigits) \o tail :
        n \in (MinCardDigits - 1)..(MaxCardDigits + 1),
        tail \in [1..FreeDigits -> DigitSet]}
CardTexts ==
    CardDigitTexts \cup {t_4111_1111_1111_1111, t_4111d1111d1111d1111,
                         t_3782_822463_10005, t_card_4111111111111111,
                         t_x4111111111111111, s_378282246310005}

t_empty == <<>>
t_plus1sp == <<"+","1"," ">>
t_plus1dash == <<"+","1","-">>
t_Call == <<"C","a","l","l"," ">>
t_555sp123sp4567 == <<"5","5","5"," ","1","2","3"," ","4","5","6","7">>
t_555dot123dot4567 == <<"5","5","5",".","1","2","3",".","4","5","6","7">>
t_p555p123_4567 == <<"(","5","5","5",")","1","2","3","-","4","5","6","7">>
t_555_1234 == <<"5","5","5","-","1","2","3","4">>
t_sp5551234567 == <<" ","5","5","5","1","2","3","4","5","6","7">>
t_comma_555_123_4567 == <<","," ","5","5","5","-","1","2","3","-","4","5","6","7">>
t_8 == <<"8">>

PhonePrefixes == {t_empty, t_plus1sp, t_plus1dash, t_Call}
PhoneCores == {s_p555p_123_4567, s_555_123_4567, s_5551234567, t_555sp123sp4567,
               t_555dot123dot4567, t_p555p123_4567, t_555_1234}
t_89012345678 == <<"8","9","0","1","2","3","4","5","6","7","8">>
PhoneSuffixes == {t_empty, t_sp5551234567, t_comma_555_123_4567, t_8, t_89012345678}
PhoneTexts == {p \o c \o x : p \in PhonePrefixes, c \in PhoneCores, x \in PhoneSuffixes}

t_a_b == <<"a","@","b">>
t_hello == <<"h","e","l","l","o">>
t_a_b_co_x_y_io == <<"a","@","b",".","c","o"," ","x","@","y",".","i","o">>
t_a_b_co_twice == <<"a","@","b",".","c","o",","," ","a","@","b",".","c","o">>
t_mail_a_b_co == <<"m","a","i","l"," ","a",".","b","@","c","-","d",".","o","r","g","!">>
EmailTexts == {s_a_b_co, t_a_b, t_hello, t_a_b_co_x_y_io, t_a_b_co_twice,
               t_mail_a_b_co, t_empty}

t_Hi_Al_Bo_x == <<"s","e","e"," ","A","l"," ","B","o"," ","x">>
t_sp == <<" ">>
k_name == <<"n","a","m","e">>
k_first_name == <<"f","i","r","s","t","_","n","a","m","e">>
k_Last_Name == <<"L","a","s","t","-","N","a","m","e">>
k_notes == <<"n","o","t","e","s">>
NameTexts == {s_Al_Bo, s_Al, s_al_bo, t_Hi_Al_Bo_x, t_sp, t_empty}
NameFields == {k_name, k_first_name, k_Last_Name, k_notes, t_empty}

InitDetect ==
    /\ faker_random \in RandomStates
    /\ replacers = <<>>
    /\ returned = <<>>
    /\ newest = <<>>
    /\ last_call = NoCall
    /\ ncalls = 0
    /\ last_detect = NoDetect
    /\ sanitizer = NoSanitizer
    /\ runs = <<>>
    /\ processed = <<>>
    /\ files = NoFiles
    /\ file_calls = <<>>
    /\ callers = NoCallers

\* the detectors keep no state between calls: a behaviour observes one call
Detected(detector, text, field_name) ==
    /\ last_detect = NoDetect
    /\ last_detect' = [detector |-> detector, text |-> text,
                       field_name |-> field_name,
                       results |-> detect(detector, text, field_name)]
    /\ UNCHANGED <<faker_random, replacers, returned, newest, last_call, ncalls,
                   sanitizer, runs, processed,
                   files, file_calls, callers>>

\* EmailDetector().detect(text)
EmailDetect(text) == Detected(EmailDetector, text, <<>>)
\* PhoneDetector().detect(text)
PhoneDetect(text) == Detected(PhoneDetector, text, <<>>)
\* CreditCardDetector().detect(text)
CreditCardDetect(text) == Detected(CreditCardDetector, text, <<>>)
\* NameDetector().detect(text, field_name)
NameDetect(text, field_name) == Detected(NameDetector, text, field_name)

NextDetect ==
    \/ \E text \in EmailTexts : EmailDetect(text)
    \/ \E text \in PhoneTexts : PhoneDetect(text)
    \/ \E text \in CardTexts : CreditCardDetect(text)
    \/ \E text \in NameTexts, field_name \in NameFields : NameDetect(text, field_name)

SpecDetect == InitDetect /\ [][NextDetect]_vars

(***************************************************************************)
(* Properties of the detectors.                                            *)
(***************************************************************************)
IsDigitString(text) == Len(text) > 0 /\ \A i \in 1..Len(text) : text[i] \in DigitSet

\* the Luhn checksum of a digit string: digits reversed, every digit at an odd
\* index doubled, 9 subtracted from doubled values above 9, sum mod 10 = 0
LuhnTerm(text, i) ==
    LET d == DigitValue(text[Len(text) - i])
    IN  IF i % 2 = 1 THEN (IF 2 * d > 9 THEN 2 * d - 9 ELSE 2 * d) ELSE d
RECURSIVE LuhnSum(_, _)
LuhnSum(text, i) == IF i >= Len(text) THEN 0 ELSE LuhnTerm(text, i) + LuhnSum(text, i + 1)
LuhnValid(text) == LuhnSum(text, 0) % 10 = 0

ReportsWhole(results, text) ==
    \E i \in 1..Len(results) : results[i].original_value = text

\* C5: every string of 13 to 19 digits with no separators is reported as a
\* match by CreditCardDetector.detect if and only if its Luhn checksum is valid.
C5_DetectedIffLuhnValid ==
    (/\ last_detect.detector = CreditCardDetector
     /\ IsDigitString(last_detect.text)
     /\ Len(last_detect.text) \in MinCardDigits..MaxCardDigits)
    => (ReportsWhole(last_detect.results, last_detect.text)
        <=> LuhnValid(last_detect.text))

SpansDisjoint(results) ==
    \A i, j \in 1..Len(results) :
        i # j => (results[i].end_pos <= results[j].start_pos
                  \/ results[j].end_pos <= results[i].start_pos)
AscendingStart(results) ==
    \A i \in 1..(Len(results) - 1) : results[i].start_pos <= results[i + 1].start_pos
\* the patterns' candidate matches of the text overlap one another
CandidatesOverlap(text) ==
    LET ms == phone_all_matches(text)
    IN  \E i, j \in 1..Len(ms) : i # j /\ SpansOverlap(ms[i].start, ms[i].end,
                                                   ms[j].start, ms[j].end)

\* C9: the results of PhoneDetector.detect have pairwise non-overlapping spans
\* and are ordered by start_pos ascending; a number matched by several
\* patterns in overlapping ways, as "(555) 123-4567", gives one result.
C9_PhoneResultsDisjointAndOrdered ==
    last_detect.detector = PhoneDetector
    => /\ SpansDisjoint(last_detect.results)
       /\ AscendingStart(last_detect.results)
       /\ (last_detect.text \in {s_p555p_123_4567, t_plus1sp \o s_p555p_123_4567}
           => /\ Len(last_detect.results) = 1
              /\ last_detect.results[1].original_value = last_detect.text)

C9_Witness ==
    /\ last_detect.detector = PhoneDetector
    /\ CandidatesOverlap(last_detect.text)
    /\ Len(last_detect.results) >= 2

(***************************************************************************)
(* The Sanitizer: one Sanitizer with its own Replacer walks values and     *)
(* record lists.                                                           *)
(***************************************************************************)
\* sanitize calls observed in one behaviour
MaxSanitizeCalls == 2
\* sanitize_file calls observed in one behaviour
MaxFileCalls == 2
\* threads that call one Replacer
NumCallers == 2

\* the detector list of cli.main, and a shorter one
CliDetectors == <<EmailDetector, PhoneDetector, NameDetector, CreditCardDetector>>
DetectorConfigs == {CliDetectors, <<NameDetector, EmailDetector>>}

k_email == <<"e","m","a","i","l">>
k_age == <<"a","g","e">>
k_tags == <<"t","a","g","s">>
k_user == <<"u","s","e","r">>
k_phone == <<"p","h","o","n","e">>
k_n == <<"n">>
k_b == <<"b">>
k_l == <<"l">>
k_d == <<"d">>
k_m == <<"m">>
j_30 == <<"3","0">>
j_1 == <<"1">>
j_1p5 == <<"1",".","5">>
j_true == <<"t","r","u","e">>
j_false == <<"f","a","l","s","e">>
j_null == <<"n","u","l","l">>
t_Al_Bo_mail_phone == <<"A","l"," ","B","o"," ","a","@","b",".","c","o"," ","5","5","5","-","1","2","3","-","4","5","6","7">>

\* {"email": "a@b.co", "age": 30, "tags": ["a@b.co", "Al", true],
\*  "user": {"first_name": "Al", "Last-Name": "Bo", "name": "Al Bo",
\*           "n": null, "l": [], "d": {}}}
v_person ==
    JDict(<<Item(k_email, JStr(s_a_b_co)),
            Item(k_age, JLeaf(j_30)),
            Item(k_tags, JList(<<JStr(s_a_b_co), JStr(s_Al), JLeaf(j_true)>>)),
            Item(k_user, JDict(<<Item(k_first_name, JStr(s_Al)),
                                 Item(k_Last_Name, JStr(s_Bo)),
                                 Item(k_name, JStr(s_Al_Bo)),
                                 Item(k_n, JLeaf(j_null)),
                                 Item(k_l, JList(<<>>)),
                                 Item(k_d, JDict(<<>>))>>))>>)
\* {"n": 1, "b": false, "d": {}, "m": [1.5, [null, {}]]}
v_plain ==
    JDict(<<Item(k_n, JLeaf(j_1)),
            Item(k_b, JLeaf(j_false)),
            Item(k_d, JDict(<<>>)),
            Item(k_m, JList(<<JLeaf(j_1p5), JList(<<JLeaf(j_null), JDict(<<>>)>>)>>))>>)
\* ["555-123-4567", ["(555) 123-4567", "hello"], {}]
v_phones ==
    JList(<<JStr(s_555_123_4567), JList(<<JStr(s_p555p_123_4567), JStr(t_hello)>>),
            JDict(<<>>)>>)
\* {"name": "Al Bo", "email": "a@b.co"}
v_contact == JDict(<<Item(k_name, JStr(s_Al_Bo)), Item(k_email, JStr(s_a_b_co))>>)
\* {"name": "Al Bo", "phone": "555-123-4567"}
v_caller == JDict(<<Item(k_name, JStr(s_Al_Bo)), Item(k_phone, JStr(s_555_123_4567))>>)

\* the (value, field_name) pairs sanitize_value is called with
ValueInputs ==
    {<<JStr(s_a_b_co), k_email>>,
     <<JStr(t_a_b_co_twice), k_notes>>,
     <<JStr(t_Al_Bo_mail_phone), k_notes>>,
     <<JStr(s_378282246310005), k_notes>>,
     <<JLeaf(j_30), k_age>>,
     <<v_person, k_user>>,
     <<v_plain, t_empty>>,
     <<v_phones, k_phone>>}
\* the record lists sanitize_records is called with
RecordInputs ==
    {<<>>, <<v_person, v_plain>>, <<v_contact, v_caller>>}

NewRun(seed, detectors) == [seed |-> seed, detectors |-> detectors, calls |-> <<>>]

RECURSIVE TotalCalls(_)
TotalCalls(rs) == IF rs = <<>> THEN 0 ELSE Len(rs[1].calls) + TotalCalls(Tail(rs))

RECURSIVE StringLeaves(_, _)
RECURSIVE StringLeavesOf(_, _, _, _)
\* the string leaves of a value, each with the field name it is processed
\* under, in the order sanitize_value reaches them
StringLeavesOf(items, k, field_name, is_dict) ==
    IF k > Len(items) THEN <<>>
    ELSE (IF is_dict THEN StringLeaves(items[k].value, items[k].key)
          ELSE StringLeaves(items[k], field_name))
         \o StringLeavesOf(items, k + 1, field_name, is_dict)
StringLeaves(value, field_name) ==
    IF value.kind = "str" THEN <<[text |-> value.str, field_name |-> field_name]>>
    ELSE IF value.kind = "dict" THEN StringLeavesOf(value.items, 1, field_name, TRUE)
    ELSE IF value.kind = "list" THEN StringLeavesOf(value.items, 1, field_name, FALSE)
    ELSE <<>>

\* replacer = Replacer(seed); sanitizer = Sanitizer(detectors, replacer)
InitSanitize ==
    \E detectors \in DetectorConfigs, seed \in Seeds \cup {NoSeed} :
        /\ faker_random \in {replacer_init(seed, r) : r \in RandomStates}
        /\ replacers = <<NewReplacerState>>
        /\ returned = <<>>
        /\ newest = <<>>
        /\ last_call = NoCall
        /\ ncalls = 0
        /\ last_detect = NoDetect
        /\ sanitizer = NewSanitizerState(detectors, 1)
        /\ runs = <<NewRun(seed, detectors)>>
        /\ processed = <<>>
        /\ files = NoFiles
        /\ file_calls = <<>>
        /\ callers = NoCallers

\* replacer = Replacer(seed); sanitizer = Sanitizer(detectors, replacer)
NewSanitizer(detectors, seed) ==
    /\ Len(replacers) < MaxReplacers
    /\ faker_random' = replacer_init(seed, faker_random)
    /\ replacers' = Append(replacers, NewReplacerState)
    /\ sanitizer' = NewSanitizerState(detectors, Len(replacers) + 1)
    /\ runs' = Append(runs, NewRun(seed, detectors))
    /\ processed' = <<>>
    /\ UNCHANGED <<returned, newest, last_call, ncalls, last_detect, files, file_calls, callers>>

\* what a sanitize call leaves behind: the Sanitizer's counters, its Replacer,
\* the shared generator, and the call in the log
Sanitized(op, input, field_name, o) ==
    /\ sanitizer' = o.ctx.san
    /\ replacers' = [replacers EXCEPT ![sanitizer.replacer] = o.ctx.rep]
    /\ faker_random' = o.ctx.rnd
    /\ runs' = [runs EXCEPT ![Len(runs)].calls =
                    Append(@, [op |-> op, input |-> input, field_name |-> field_name,
                               output |-> o.value, lookups |-> o.ctx.lookups,
                               pii_fields_detected |-> o.ctx.san.pii_fields_detected,
                               pii_replacements_made |->
                                   o.ctx.san.pii_replacements_made])]
    /\ processed' = processed \o StringLeaves(input, field_name)
    /\ UNCHANGED <<returned, newest, last_call, ncalls, last_detect, files, file_calls, callers>>

\* sanitizer.sanitize_value(value, field_name)
SanitizeValue(value, field_name) ==
    /\ TotalCalls(runs) < MaxSanitizeCalls
    /\ \E o \in {sanitize_value(Ctx(sanitizer, replacers[sanitizer.replacer],
                                      faker_random, <<>>), value, field_name)} :
           Sanitized("sanitize_value", value, field_name, o)

\* sanitizer.sanitize_records(records)
SanitizeRecords(records) ==
    /\ TotalCalls(runs) < MaxSanitizeCalls
    /\ \E o \in {sanitize_records(Ctx(sanitizer, replacers[sanitizer.replacer],
                                        faker_random, <<>>), records)} :
           Sanitized("sanitize_records", JList(records), <<>>,
                     Out(JList(o.value), o.ctx))

NextSanitize ==
    \/ \E in \in ValueInputs : SanitizeValue(in[1], in[2])
    \/ \E records \in RecordInputs : SanitizeRecords(records)

SpecSanitize == InitSanitize /\ [][NextSanitize]_vars

(***************************************************************************)
(* Runs one after the other: each run constructs a Replacer and a          *)
(* Sanitizer and sanitizes one record list.                                *)
(***************************************************************************)
\* the run of a Sanitizer constructed for it
Run(records) ==
    /\ runs[Len(runs)].calls = <<>>
    /\ SanitizeRecords(records)

NextRuns ==
    \/ \E detectors \in DetectorConfigs, seed \in Seeds \cup {NoSeed} :
           NewSanitizer(detectors, seed)
    \/ \E records \in RecordInputs : Run(records)

SpecRuns == InitSanitize /\ [][NextRuns]_vars

(***************************************************************************)
(* Properties of the Sanitizer.                                            *)
(***************************************************************************)
HasCall == runs # <<>> /\ runs[Len(runs)].calls # <<>>
\* the latest sanitize call of the Sanitizer in use
LastSanitize == runs[Len(runs)].calls[Len(runs[Len(runs)].calls)]

RECURSIVE SameShape(_, _)
\* same keys in the same order, same lengths, non-string leaves equal,
\* strings in the place of strings
SameShape(a, b) ==
    /\ a.kind = b.kind
    /\ a.kind = "leaf" => a = b
    /\ a.kind = "list" =>
           /\ Len(a.items) = Len(b.items)
           /\ \A i \in 1..Len(a.items) : SameShape(a.items[i], b.items[i])
    /\ a.kind = "dict" =>
           /\ Len(a.items) = Len(b.items)
           /\ \A i \in 1..Len(a.items) :
                  /\ a.items[i].key = b.items[i].key
                  /\ SameShape(a.items[i].value, b.items[i].value)

RECURSIVE HasKind(_, _)
\* some node of the value has this kind
HasKind(a, kind) ==
    \/ a.kind = kind
    \/ a.kind = "list" /\ \E i \in 1..Len(a.items) : HasKind(a.items[i], kind)
    \/ a.kind = "dict" /\ \E i \in 1..Len(a.items) : HasKind(a.items[i].value, kind)

\* C6: sanitize_records and sanitize_value return a tree of the shape of
\* their input: mappings keep their keys in order, sequences their length,
\* non-string leaves their value; an input without string leaves comes back
\* equal to itself.
C6_ShapePreserved ==
    HasCall =>
        /\ SameShape(LastSanitize.input, LastSanitize.output)
        /\ ~HasKind(LastSanitize.input, "str")
               => LastSanitize.output = LastSanitize.input

C6_Witness ==
    /\ HasCall
    /\ LastSanitize.op = "sanitize_records"
    /\ Len(LastSanitize.input.items) >= 2
    /\ LastSanitize.output # LastSanitize.input
    /\ \E i \in 1..Len(LastSanitize.input.items) :
           /\ ~HasKind(LastSanitize.input.items[i], "str")
           /\ HasKind(LastSanitize.input.items[i], "leaf")
           /\ HasKind(LastSanitize.input.items[i], "list")
           /\ LastSanitize.output.items[i] = LastSanitize.input.items[i]

\* the detections the Sanitizer's detectors return for a processed leaf
LeafDetections(leaf) ==
    collect_detections(sanitizer.detectors, 1, leaf.text, leaf.field_name)
RECURSIVE DetectionsSoFar(_)
DetectionsSoFar(n) ==
    IF n = 0 THEN 0 ELSE Len(LeafDetections(processed[n])) + DetectionsSoFar(n - 1)
LeavesWithDetections ==
    {i \in 1..Len(processed) : LeafDetections(processed[i]) # <<>>}

\* C7: after the string leaves processed so far, pii_fields_detected is the
\* number of them with at least one detection, pii_replacements_made is the
\* number of detections returned for them, one per detection, and
\* pii_replacements_made >= pii_fields_detected.
C7_CountersCountLeavesAndDetections ==
    sanitizer # NoSanitizer =>
        /\ sanitizer.pii_fields_detected = Cardinality(LeavesWithDetections)
        /\ sanitizer.pii_replacements_made = DetectionsSoFar(Len(processed))
        /\ sanitizer.pii_replacements_made >= sanitizer.pii_fields_detected

C7_Witness ==
    /\ sanitizer # NoSanitizer
    /\ sanitizer.pii_replacements_made > sanitizer.pii_fields_detected
    /\ \E i \in 1..Len(processed) : LeafDetections(processed[i]) = <<>>
    /\ \E i \in 1..Len(processed) :
           LET ds == LeafDetections(processed[i])
           IN  \E j, k \in 1..Len(ds) :
                   j # k /\ ds[j].original_value = ds[k].original_value

ValidSpans(text, ds) ==
    \A i \in 1..Len(ds) :
        /\ 0 <= ds[i].start_pos
        /\ ds[i].start_pos < ds[i].end_pos
        /\ ds[i].end_pos <= Len(text)
\* the replacement the Sanitizer's Replacer holds for a detection
ReplacementOf(d) ==
    replacers[sanitizer.replacer].cache[<<d.original_value, d.pii_type>>]
RECURSIVE Respliced(_, _, _, _)
\* the text from pos on, with the spans of ds[k..], taken left to right,
\* replaced by their replacements
Respliced(text, ds, k, pos) ==
    IF k > Len(ds) THEN Slice(text, pos, Len(text))
    ELSE Slice(text, pos, ds[k].start_pos) \o ReplacementOf(ds[k])
         \o Respliced(text, ds, k + 1, ds[k].end_pos)
LeftToRight(ds) ==
    StableSortByKey(ds, [i \in 1..Len(ds) |-> <<ds[i].start_pos, 0>>])
\* the latest call sanitized one string
LastIsString == HasCall /\ LastSanitize.input.kind = "str"
LastPooled ==
    collect_detections(sanitizer.detectors, 1, LastSanitize.input.str,
                       LastSanitize.field_name)

\* C8: when the detections pooled for a string have valid, pairwise
\* non-overlapping spans, the sanitized string is the input with each span
\* replaced by that detection's replacement, left to right, every character
\* outside the spans kept in order.
C8_SpansReplacedInPlace ==
    (/\ LastIsString
     /\ ValidSpans(LastSanitize.input.str, LastPooled)
     /\ SpansDisjoint(LastPooled))
    => LastSanitize.output.str =
           Respliced(LastSanitize.input.str, LeftToRight(LastPooled), 1, 0)

C8_Witness ==
    /\ LastIsString
    /\ ValidSpans(LastSanitize.input.str, LastPooled)
    /\ SpansDisjoint(LastPooled)
    /\ Len(LastPooled) >= 3
    /\ \E i, j \in 1..Len(LastPooled) :
           /\ LastPooled[i].start_pos > LastPooled[j].start_pos
           /\ i < j
    /\ \E i \in 1..Len(LastPooled) :
           Len(ReplacementOf(LastPooled[i])) # Len(LastPooled[i].original_value)

\* C10: two runs over the same input, each with a fresh Replacer of the same
\* seed and with the same detectors, one after the other, give the same output.
C10_SameSeedSameOutput ==
    \A i, j \in 1..Len(runs) :
        (/\ i < j
         /\ runs[i].seed # NoSeed
         /\ runs[i].seed = runs[j].seed
         /\ runs[i].detectors = runs[j].detectors
         /\ runs[i].calls # <<>>
         /\ runs[j].calls # <<>>
         /\ runs[i].calls[1].input = runs[j].calls[1].input)
        => runs[i].calls[1].output = runs[j].calls[1].output

C10_Witness ==
    \E i, j \in 1..Len(runs) :
        /\ i < j
        /\ runs[i].seed # NoSeed
        /\ runs[i].seed = runs[j].seed
        /\ runs[i].detectors = runs[j].detectors
        /\ runs[i].calls # <<>>
        /\ runs[j].calls # <<>>
        /\ runs[i].calls[1].input = runs[j].calls[1].input
        /\ runs[i].calls[1].output # runs[i].calls[1].input
        /\ runs[i].calls[1].output = runs[j].calls[1].output

\* no string leaf of the value has a detection by the Sanitizer's detectors
NothingDetected(value, field_name) ==
    LET leaves == StringLeaves(value, field_name)
    IN  \A i \in 1..Len(leaves) :
            collect_detections(sanitizer.detectors, 1, leaves[i].text,
                               leaves[i].field_name) = <<>>
\* a sanitize call has just been made
CallMade == TotalCalls(runs') = TotalCalls(runs) + 1

\* C14: when no configured detector reports a detection for a string (in
\* particular when the detector of its PII type is not configured), the
\* string is returned unchanged, neither counter changes and the Replacer is
\* not called, so its caches and the generator are as before.
C14_NoDetectionNoEffect ==
    [][(CallMade /\ NothingDetected(LastSanitize'.input, LastSanitize'.field_name))
       => /\ LastSanitize'.output = LastSanitize'.input
          /\ LastSanitize'.lookups = <<>>
          /\ sanitizer' = sanitizer
          /\ replacers' = replacers
          /\ faker_random' = faker_random]_vars

C14_Witness ==
    /\ LastIsString
    /\ LastPooled = <<>>
    /\ PhoneDetector \notin Range(sanitizer.detectors)
    /\ detect(PhoneDetector, LastSanitize.input.str, LastSanitize.field_name) # <<>>
    /\ LastSanitize.output = LastSanitize.input

RECURSIVE WorkingString(_, _, _)
\* the working string of _sanitize_string after the first k of the sorted
\* detections ds of the text have been applied
WorkingString(text, ds, k) ==
    IF k = 0 THEN text
    ELSE splice(WorkingString(text, ds, k - 1), ds[k], ReplacementOf(ds[k]))
HasValidSpan(d) == d.start_pos >= 0 /\ d.end_pos > d.start_pos

\* C18: at the moment a detection with a valid span is spliced, the slice
\* [start_pos, end_pos) of the working string still equals the detection's
\* original_value, for every detection list the configured detectors return.
C18_SpliceFindsOriginal ==
    LastIsString =>
        LET ds == sort_detections(LastPooled)
        IN  \A k \in 1..Len(ds) :
                HasValidSpan(ds[k]) =>
                    Slice(WorkingString(LastSanitize.input.str, ds, k - 1),
                          ds[k].start_pos, ds[k].end_pos) = ds[k].original_value

(***************************************************************************)
(* Phone replacements: one PHONE original of each format is replaced on a  *)
(* fresh Replacer, for every state of the generator.                       *)
(***************************************************************************)
\* strings of digits only, as long as PhoneDetector accepts them
PhoneDigitOriginals ==
    {Slice(s_378282246310005, 0, n) : n \in MinPhoneDigits..MaxPhoneDigits}
PhoneOriginals == PhoneTexts \cup PhoneDigitOriginals

\* replacer.replace(DetectionResult(PHONE, original, ...)), the first call
GeneratePhone(original) ==
    /\ ncalls = 0
    /\ Replace(1, original, PHONE)

NextPhone == \E original \in PhoneOriginals : GeneratePhone(original)

SpecPhone == InitReplacer /\ [][NextPhone]_vars

HasChar(s, c) == \E i \in 1..Len(s) : s[i] = c

IsParenForm(s) ==
    /\ Len(s) = 14
    /\ s[1] = "(" /\ s[5] = ")" /\ s[6] = " " /\ s[10] = "-"
    /\ \A i \in {2, 3, 4, 7, 8, 9, 11, 12, 13, 14} : s[i] \in DigitSet
\* s has the form AAA-PPP-LLLL
IsDashForm(s) ==
    /\ Len(s) = 12
    /\ s[4] = "-" /\ s[8] = "-"
    /\ \A i \in {1, 2, 3, 5, 6, 7, 9, 10, 11, 12} : s[i] \in DigitSet
\* the digits of s are the first ten digits of a number of the generator
FromGeneratedDigits(s) ==
    \E i \in 1..Len(PhonePool) :
        digits_of(s) = Slice(digits_of(PhonePool[i]), 0, 10)
ParenOriginal(s) ==
    HasChar(s, "(") /\ HasChar(s, ")") /\ ~(HasChar(s, "+") /\ HasChar(s, "-"))
DashOriginal(s) ==
    HasChar(s, "-") /\ ~HasChar(s, "(") /\ ~HasChar(s, ")") /\ ~HasChar(s, "+")

\* C20: a PHONE original with parentheses (and not both + and -) is replaced
\* by (AAA) PPP-LLLL, one with dashes and neither parentheses nor + by
\* AAA-PPP-LLLL, both built from the digits of the generated number,
\* whichever number the generator produced.
C20_PhoneFormatKept ==
    last_call.pii_type = PHONE =>
        /\ ParenOriginal(last_call.original)
               => IsParenForm(last_call.value) /\ FromGeneratedDigits(last_call.value)
        /\ DashOriginal(last_call.original)
               => IsDashForm(last_call.value) /\ FromGeneratedDigits(last_call.value)

C20_Witness ==
    /\ last_call.pii_type = PHONE
    /\ ParenOriginal(last_call.original)
    /\ IsParenForm(last_call.value)
    /\ last_call.value \notin Range(PhonePool)
    /\ last_call.value = <<"(">> \o Slice(digits_of(f_p15550109999), 0, 3)
                         \o <<")", " ">> \o Slice(digits_of(f_p15550109999), 3, 6)
                         \o <<"-">> \o Slice(digits_of(f_p15550109999), 6, 10)

(***************************************************************************)
(* Several originals of one type on one Replacer.                          *)
(***************************************************************************)
s_c_d_co == <<"c","@","d",".","c","o">>
s_e_f_co == <<"e","@","f",".","c","o">>
s_5559876543 == <<"5","5","5","9","8","7","6","5","4","3">>
s_555_987_6543 == <<"5","5","5","-","9","8","7","-","6","5","4","3">>

\* the (original, pii_type) pairs: different originals of the same type
DistinctInputs ==
    ({s_a_b_co, s_c_d_co, s_e_f_co} \X {EMAIL})
    \cup ({s_5551234567, s_5559876543, s_555_987_6543} \X {PHONE})
    \cup ({s_378282246310005, f_4111111111111111} \X {CREDIT_CARD})

NextDistinct == \E in \in DistinctInputs : Replace(1, in[1], in[2])

SpecDistinct == InitReplacer /\ [][NextDistinct]_vars

\* C15: two different originals of the same type (email, phone, credit
\* card) replaced by one Replacer get different replacements.
C15_ReplacementsInjective ==
    \A r \in 1..Len(returned) :
        \A k1, k2 \in DOMAIN returned[r] :
            (k1 # k2 /\ k1[2] = k2[2] /\ k1[2] \in {EMAIL, PHONE, CREDIT_CARD})
            => returned[r][k1] # returned[r][k2]

(***************************************************************************)
(* The order of the detector list: each sanitize call is compared with     *)
(* the same call made with the detectors in every other order.             *)
(***************************************************************************)
t_378282246310005_tail ==
    <<"3","7","8","2","8","2","2","4","6","3","1","0","0","0","5"," ","t","a","i","l">>

OrderInputs ==
    {<<JStr(t_Al_Bo_mail_phone), k_notes>>,
     <<JStr(t_378282246310005_tail), k_notes>>,
     <<JStr(t_a_b_co_twice), k_notes>>,
     <<v_contact, t_empty>>}

NextOrder == \E in \in OrderInputs : SanitizeValue(in[1], in[2])

SpecOrder == InitSanitize /\ [][NextOrder]_vars

\* the detector list in the order p
Permuted(detectors, p) == [i \in 1..Len(detectors) |-> detectors[p[i]]]

\* no two detectors of the list report overlapping spans in the text
NoOverlapBetweenDetectors(detectors, text, field_name) ==
    \A i, j \in 1..Len(detectors) :
        i # j =>
            LET a == detect(detectors[i], text, field_name)
                b == detect(detectors[j], text, field_name)
            IN  \A m \in 1..Len(a), n \in 1..Len(b) :
                    ~SpansOverlap(a[m].start_pos, a[m].end_pos,
                                  b[n].start_pos, b[n].end_pos)
NoOverlapInInput(detectors, value, field_name) ==
    LET leaves == StringLeaves(value, field_name)
    IN  \A i \in 1..Len(leaves) :
            NoOverlapBetweenDetectors(detectors, leaves[i].text, leaves[i].field_name)

\* C16: when no two detectors report overlapping spans in any string of the
\* input, the same call with the detector list in any other order gives the
\* same output, the same counters and the same sequence of (original,
\* pii_type) lookups on the Replacer.
C16_DetectorOrderIrrelevant ==
    [][(CallMade /\ NoOverlapInInput(sanitizer.detectors, LastSanitize'.input,
                                     LastSanitize'.field_name))
       => \A p \in Permutations(1..Len(sanitizer.detectors)) :
              \E o \in {sanitize_value(
                            Ctx([sanitizer EXCEPT
                                     !.detectors = Permuted(sanitizer.detectors, p)],
                                replacers[sanitizer.replacer], faker_random, <<>>),
                            LastSanitize'.input, LastSanitize'.field_name)} :
                  /\ o.value = LastSanitize'.output
                  /\ o.ctx.lookups = LastSanitize'.lookups
                  /\ o.ctx.san.pii_fields_detected = sanitizer'.pii_fields_detected
                  /\ o.ctx.san.pii_replacements_made = sanitizer'.pii_replacements_made
                  /\ o.ctx.rep = replacers'[sanitizer.replacer]]_vars

C16_Witness ==
    /\ HasCall
    /\ sanitizer.detectors = CliDetectors
    /\ LastSanitize.input = JStr(t_Al_Bo_mail_phone)
    /\ NoOverlapInInput(sanitizer.detectors, LastSanitize.input, LastSanitize.field_name)
    /\ Len(LastSanitize.lookups) = 3
    /\ LastSanitize.output # LastSanitize.input

(***************************************************************************)
(* Detections without a position: a detector that reports a value with     *)
(* the default span, alone and next to EmailDetector.                      *)
(***************************************************************************)
FallbackConfigs ==
    {<<ValueDetector>>, <<ValueDetector, ValueDetector>>,
     <<EmailDetector, ValueDetector>>, <<ValueDetector, EmailDetector>>}

t_x_a_b_co == <<"x"," ","a","@","b",".","c","o">>
FallbackTexts == {s_a_b_co, t_a_b_co_twice, t_x_a_b_co, t_hello, t_empty}

\* replacer = Replacer(seed); sanitizer = Sanitizer(detectors, replacer)
InitFallback ==
    \E detectors \in FallbackConfigs, seed \in Seeds \cup {NoSeed} :
        /\ faker_random \in {replacer_init(seed, r) : r \in RandomStates}
        /\ replacers = <<NewReplacerState>>
        /\ returned = <<>>
        /\ newest = <<>>
        /\ last_call = NoCall
        /\ ncalls = 0
        /\ last_detect = NoDetect
        /\ sanitizer = NewSanitizerState(detectors, 1)
        /\ runs = <<NewRun(seed, detectors)>>
        /\ processed = <<>>
        /\ files = NoFiles
        /\ file_calls = <<>>
        /\ callers = NoCallers

NextFallback == \E text \in FallbackTexts : SanitizeValue(JStr(text), k_notes)

SpecFallback == InitFallback /\ [][NextFallback]_vars

Occurs(s, old) == \E i \in 0..(Len(s) - Len(old)) : Slice(s, i, i + Len(old)) = old
\* after is before with the leftmost occurrence of old replaced by new and
\* every other character kept
FirstOccurrenceReplaced(before, old, new, after) ==
    \E i \in 0..(Len(before) - Len(old)) :
        /\ Slice(before, i, i + Len(old)) = old
        /\ \A j \in 0..(i - 1) : Slice(before, j, j + Len(old)) # old
        /\ after = Slice(before, 0, i) \o new \o Slice(before, i + Len(old), Len(before))

Tok(t, s) == [t |-> t, s |-> s]
T(t) == Tok(t, <<>>)
TStr(s) == Tok("str", s)
TLit(s) == Tok("lit", s)

\* a lone surrogate, written \ud800 in JSON text: a str may hold it, UTF-8
\* cannot encode it
LoneSurrogate == "\\ud800"

j_NaN == <<"N","a","N">>
\* -?digits(.digits)?  (no leading zeros, as JSON requires)
IsJsonNumber(s) ==
    LET body == IF s # <<>> /\ s[1] = "-" THEN Tail(s) ELSE s
        dots == {i \in 1..Len(body) : body[i] = "."}
        int == IF dots = {} THEN body ELSE Slice(body, 0, (CHOOSE i \in dots : TRUE) - 1)
        frac == IF dots = {} THEN <<>>
                ELSE Slice(body, CHOOSE i \in dots : TRUE, Len(body))
    IN  /\ Cardinality(dots) <= 1
        /\ str_isdigit(int)
        /\ (Len(int) > 1 => int[1] # "0")
        /\ (dots # {} => str_isdigit(frac))
IsJsonLiteral(s) == s \in {j_true, j_false, j_null, j_NaN} \/ IsJsonNumber(s)

RECURSIVE strip_zeros(_)
\* the digits after the point as repr(float) gives them
strip_zeros(frac) ==
    IF Len(frac) > 1 /\ frac[Len(frac)] = "0"
    THEN strip_zeros(SubSeq(frac, 1, Len(frac) - 1))
    ELSE frac
\* the value of a literal, as json.dump writes it back: int("-0") is 0,
\* float("1.50") is 1.5
py_literal(s) ==
    IF ~IsJsonNumber(s) THEN s
    ELSE LET dots == {i \in 1..Len(s) : s[i] = "."}
         IN  IF dots = {}
             THEN (IF s = <<"-", "0">> THEN <<"0">> ELSE s)
             ELSE LET d == CHOOSE i \in dots : TRUE
                  IN  SubSeq(s, 1, d) \o strip_zeros(SubSeq(s, d + 1, Len(s)))

\* the result of a parse step: the value and the index of the next token
Parsed(value, next) == [ok |-> TRUE, value |-> value, next |-> next]
\* json.JSONDecodeError
DecodeError == [ok |-> FALSE, value |-> JLeaf(<<>>), next |-> 0]

IsTok(toks, i, t) == i <= Len(toks) /\ toks[i].t = t

RECURSIVE dict_set(_, _, _, _)
\* d[key] = value on a dict: a key already there keeps its place
dict_set(items, k, key, value) ==
    IF k > Len(items) THEN Append(items, Item(key, value))
    ELSE IF items[k].key = key THEN [items EXCEPT ![k] = Item(key, value)]
    ELSE dict_set(items, k + 1, key, value)

RECURSIVE parse_value(_, _)
RECURSIVE parse_array(_, _, _)
RECURSIVE parse_object(_, _, _)
\* the elements of an array from token i on, after those in acc
parse_array(toks, i, acc) ==
    The({IF ~r.ok THEN DecodeError
         ELSE IF IsTok(toks, r.next, ",")
         THEN parse_array(toks, r.next + 1, Append(acc, r.value))
         ELSE IF IsTok(toks, r.next, "]")
         THEN Parsed(JList(Append(acc, r.value)), r.next + 1)
         ELSE DecodeError : r \in {parse_value(toks, i)}})
\* the members of an object from token i on, after those in acc
parse_object(toks, i, acc) ==
    IF ~(IsTok(toks, i, "str") /\ IsTok(toks, i + 1, ":")) THEN DecodeError
    ELSE The({IF ~r.ok THEN DecodeError
              ELSE IF IsTok(toks, r.next, ",")
              THEN parse_object(toks, r.next + 1,
                                dict_set(acc, 1, toks[i].s, r.value))
              ELSE IF IsTok(toks, r.next, "}")
              THEN Parsed(JDict(dict_set(acc, 1, toks[i].s, r.value)), r.next + 1)
              ELSE DecodeError : r \in {parse_value(toks, i + 2)}})
\* the JSON value that starts at token i
parse_value(toks, i) ==
    IF i > Len(toks) THEN DecodeError
    ELSE IF toks[i].t = "str" THEN Parsed(JStr(toks[i].s), i + 1)
    ELSE IF toks[i].t = "lit"
    THEN (IF IsJsonLiteral(toks[i].s)
          THEN Parsed(JLeaf(py_literal(toks[i].s)), i + 1) ELSE DecodeError)
    ELSE IF toks[i].t = "["
    THEN (IF IsTok(toks, i + 1, "]") THEN Parsed(JList(<<>>), i + 2)
          ELSE parse_array(toks, i + 1, <<>>))
    ELSE IF toks[i].t = "{"
    THEN (IF IsTok(toks, i + 1, "}") THEN Parsed(JDict(<<>>), i + 2)
          ELSE parse_object(toks, i + 1, <<>>))
    ELSE DecodeError

\* json.load(f): the value, or JSONDecodeError (also for data after the value)
json_load(toks) ==
    The({IF r.ok /\ r.next = Len(toks) + 1 THEN r ELSE DecodeError :
         r \in {parse_value(toks, 1)}})

RECURSIVE json_dumps(_)
RECURSIVE dumps_items(_, _, _)
\* the elements or members from the k-th on, separated by commas
dumps_items(items, k, is_dict) ==
    IF k > Len(items) THEN <<>>
    ELSE (IF k > 1 THEN <<T(",")>> ELSE <<>>)
         \o (IF is_dict
             THEN <<TStr(items[k].key), T(":")>> \o json_dumps(items[k].value)
             ELSE json_dumps(items[k]))
         \o dumps_items(items, k + 1, is_dict)
\* json.dump(data, f, indent=2, ensure_ascii=False): the tokens written
json_dumps(value) ==
    IF value.kind = "str" THEN <<TStr(value.str)>>
    ELSE IF value.kind = "leaf" THEN <<TLit(value.str)>>
    ELSE IF value.kind = "list"
    THEN <<T("[")>> \o dumps_items(value.items, 1, FALSE) \o <<T("]")>>
    ELSE <<T("{")>> \o dumps_items(value.items, 1, TRUE) \o <<T("}")>>

\* the string tokens UTF-8 cannot encode
Unencodable(toks) ==
    {i \in 1..Len(toks) :
         toks[i].t = "str" /\ \E c \in 1..Len(toks[i].s) : toks[i].s[c] = LoneSurrogate}

(***************************************************************************)
(* Files.  A path holds nothing, a directory or a file; a file has its     *)
(* content and the permissions of the process on it.                       *)
(***************************************************************************)
Absent == [kind |-> "absent", content |-> <<>>, readable |-> FALSE, writable |-> FALSE]
Directory == [kind |-> "dir", content |-> <<>>, readable |-> TRUE, writable |-> TRUE]
File(content) ==
    [kind |-> "file", content |-> content, readable |-> TRUE, writable |-> TRUE]
LockedFile(content) ==
    [kind |-> "file", content |-> content, readable |-> FALSE, writable |-> FALSE]

p_cwd == "."
p_in == "in.json"
p_out == "out.json"
p_missing == "missing.json"
p_data == "data"
p_locked == "locked.json"
p_new == "new"
p_new_out == "new/out.json"
Paths == {p_cwd, p_in, p_out, p_missing, p_data, p_locked, p_new, p_new_out}
\* output_path.parent
Parent(path) == IF path = p_new_out THEN p_new ELSE p_cwd

\* the exceptions of exceptions.py, and no exception
NoError == "None"
FileNotFoundError == "FileNotFoundError"
JSONParseError == "JSONParseError"
InvalidOutputPathError == "InvalidOutputPathError"
AttributeError == "AttributeError"

\* what a step returns or raises: the exception class, str(e), the value
\* returned, and the file system it leaves
Step(raised, message, data, fs) ==
    [raised |-> raised, message |-> message, data |-> data, files |-> fs]

\* Sanitizer._read_json_file
_read_json_file(fs, input_path) ==
    IF fs[input_path].kind = "absent"
    THEN Step(FileNotFoundError, "Input file not found", <<>>, fs)
    ELSE IF fs[input_path].kind # "file"
    THEN Step(FileNotFoundError, "Input path is not a file", <<>>, fs)
    ELSE IF ~fs[input_path].readable
    THEN Step(FileNotFoundError, "Permission denied reading file", <<>>, fs)
    ELSE The({IF ~data.ok
              THEN Step(JSONParseError, "Invalid JSON", <<>>, fs)
              ELSE IF data.value.kind # "list"
              THEN Step(FileNotFoundError,
                        "Error reading file: JSON root must be an array at line 1, column 1",
                        <<>>, fs)
              ELSE Step(NoError, "", data.value.items, fs) :
              data \in {json_load(fs[input_path].content)}})

\* a mutation of _write_json_file: the output is written whatever it holds
write_json_file_lossy(fs, output_path, data) ==
    Step(NoError, "", <<>>,
         [fs EXCEPT ![output_path] = File(<<T("["), T("]")>>)])

\* Sanitizer._write_json_file
_write_json_file(fs, output_path, data) ==
    IF fs[Parent(output_path)].kind = "file"
    THEN Step(InvalidOutputPathError, "Error writing output file", <<>>, fs)
    ELSE LET made == [fs EXCEPT ![Parent(output_path)] = Directory]
         IN  IF made[output_path].kind = "dir"
             THEN Step(InvalidOutputPathError, "Error writing output file", <<>>, made)
             ELSE IF made[output_path].kind = "file" /\ ~made[output_path].writable
             THEN Step(InvalidOutputPathError, "Permission denied writing to", <<>>, made)
             ELSE The({IF Unencodable(toks) = {}
                       THEN Step(NoError, "", <<>>,
                                 [made EXCEPT ![output_path] = File(toks)])
                       ELSE Step(InvalidOutputPathError,
                                 "Unexpected error writing output", <<>>,
                                 [made EXCEPT ![output_path] =
                                      File(SubSeq(toks, 1,
                                           (CHOOSE i \in Unencodable(toks) :
                                                \A j \in Unencodable(toks) : i <= j)
                                           - 1))]) :
                       toks \in {json_dumps(JList(data))}})

\* SanitizationResult; error_message is None (no element) or a str
SanitizationResult(success, records_processed, pii_fields_detected, pii_replacements_made, error_message) ==
    [success |-> success, records_processed |-> records_processed,
     pii_fields_detected |-> pii_fields_detected,
     pii_replacements_made |-> pii_replacements_made,
     error_message |-> error_message]
Failure(message) == SanitizationResult(FALSE, 0, 0, 0, <<message>>)

\* the records before the first one that is no dict, on which record.items()
\* raises AttributeError
DictPrefix(records) ==
    LET bad == {k \in 1..Len(records) : records[k].kind # "dict"}
    IN  IF bad = {} THEN records
        ELSE SubSeq(records, 1, (CHOOSE k \in bad : \A j \in bad : k <= j) - 1)

\* what a sanitize_file call leaves behind, and what it returns or, if no
\* handler catches it, the exception it propagates
FileOut(ctx, fs, handled) ==
    [ctx |-> ctx, files |-> fs, result |-> handled.result,
     propagated |-> handled.propagated]
Returned(result) == [result |-> result, propagated |-> NoError]
Propagated(raised) ==
    [result |-> SanitizationResult(FALSE, 0, 0, 0, <<>>), propagated |-> raised]

\* a mutation of the handlers of sanitize_file: no except Exception clause
handlers_known_only(raised, message) ==
    IF raised \in {FileNotFoundError, JSONParseError, InvalidOutputPathError}
    THEN Returned(Failure(message))
    ELSE Propagated(raised)

\* the except clauses of sanitize_file
handlers(raised, message) ==
    IF raised \in {FileNotFoundError, JSONParseError, InvalidOutputPathError}
    THEN Returned(Failure(message))
    ELSE Returned(Failure("Unexpected error during sanitization"))

\* a mutation of the reset in sanitize_file: the counters are left as they are
reset_counters_kept(ctx) == ctx

\* self._pii_fields_detected = 0; self._pii_replacements_made = 0
reset_counters(ctx) ==
    [ctx EXCEPT !.san.pii_fields_detected = 0, !.san.pii_replacements_made = 0]

\* Sanitizer.sanitize_file
sanitize_file(ctx, fs, input_path, output_path) ==
    LET reset == reset_counters(ctx)
    IN  The({IF read.raised # NoError
             THEN FileOut(reset, fs, handlers(read.raised, read.message))
             ELSE The({IF Len(DictPrefix(read.data)) < Len(read.data)
                       THEN FileOut(o.ctx, fs,
                                    handlers(AttributeError,
                                             "object has no attribute 'items'"))
                       ELSE The({IF written.raised # NoError
                                 THEN FileOut(o.ctx, written.files,
                                          handlers(written.raised, written.message))
                                 ELSE FileOut(o.ctx, written.files,
                                          Returned(SanitizationResult(TRUE,
                                              Len(read.data),
                                              o.ctx.san.pii_fields_detected,
                                              o.ctx.san.pii_replacements_made,
                                              <<>>))) :
                                 written \in {_write_json_file(fs, output_path,
                                                               o.value)}}) :
                       o \in {sanitize_records(reset, DictPrefix(read.data))}}) :
             read \in {_read_json_file(fs, input_path)}})

(***************************************************************************)
(* sanitize_file on a small file system: one Sanitizer, as the command     *)
(* line builds it, reads an input path and writes an output path.          *)
(***************************************************************************)
k_a == <<"a">>
k_k == <<"k">>
t_ok == <<"o","k">>
j_m0 == <<"-","0">>
j_1p50 == <<"1",".","5","0">>

\* [{"name": "Al Bo", "email": "a@b.co"}, {"name": "Al Bo", "phone": "555-123-4567"}]
c_records == json_dumps(JList(<<v_contact, v_caller>>))
\* []
c_empty_array == <<T("["), T("]")>>
\* [{"n": -0, "m": 1.50, "k": "ok", "k": "a@b.co"}]
c_literals ==
    <<T("["), T("{"), TStr(k_n), T(":"), TLit(j_m0), T(","),
      TStr(k_m), T(":"), TLit(j_1p50), T(","),
      TStr(k_k), T(":"), TStr(t_ok), T(","),
      TStr(k_k), T(":"), TStr(s_a_b_co), T("}"), T("]")>>
\* [{"email": "a@b.co"}, {"b": "\ud800"}]
c_surrogate ==
    <<T("["), T("{"), TStr(k_email), T(":"), TStr(s_a_b_co), T("}"), T(","),
      T("{"), TStr(k_b), T(":"), TStr(<<LoneSurrogate>>), T("}"), T("]")>>
\* {"name": "Al Bo", "email": "a@b.co"}
c_object == json_dumps(v_contact)
\* [{
c_truncated == <<T("["), T("{")>>
\* [{"email": "a@b.co"}, 1]
c_not_records ==
    <<T("["), T("{"), TStr(k_email), T(":"), TStr(s_a_b_co), T("}"), T(","),
      TLit(j_1), T("]")>>
\* an empty file
c_nothing == <<>>
\* "previous content": what the output file holds before
c_previous == <<TStr(t_hello)>>

InputContents ==
    {c_records, c_empty_array, c_literals, c_surrogate, c_object, c_truncated,
     c_not_records, c_nothing}
InputPaths == {p_in, p_missing, p_data, p_locked}
OutputPaths == {p_out, p_new_out, p_data, p_locked, p_in}

\* replacer = Replacer(seed); sanitizer = Sanitizer(detectors, replacer)
InitFile ==
    \E seed \in Seeds, content \in InputContents :
        /\ faker_random \in {replacer_init(seed, r) : r \in RandomStates}
        /\ replacers = <<NewReplacerState>>
        /\ returned = <<>>
        /\ newest = <<>>
        /\ last_call = NoCall
        /\ ncalls = 0
        /\ last_detect = NoDetect
        /\ sanitizer = NewSanitizerState(CliDetectors, 1)
        /\ runs = <<NewRun(seed, CliDetectors)>>
        /\ processed = <<>>
        /\ files = [p \in Paths |->
                        IF p = p_in THEN File(content)
                        ELSE IF p = p_out THEN File(c_previous)
                        ELSE IF p = p_locked THEN LockedFile(c_records)
                        ELSE IF p \in {p_cwd, p_data} THEN Directory
                        ELSE Absent]
        /\ file_calls = <<>>
        /\ callers = NoCallers

\* result = sanitizer.sanitize_file(input_path, output_path)
SanitizeFile(input_path, output_path) ==
    /\ Len(file_calls) < MaxFileCalls
    /\ \E o \in {sanitize_file(Ctx(sanitizer, replacers[sanitizer.replacer],
                                     faker_random, <<>>),
                                 files, input_path, output_path)} :
           /\ sanitizer' = o.ctx.san
           /\ replacers' = [replacers EXCEPT ![sanitizer.replacer] = o.ctx.rep]
           /\ faker_random' = o.ctx.rnd
           /\ files' = o.files
           /\ file_calls' = Append(file_calls,
                                   [input_path |-> input_path,
                                    output_path |-> output_path,
                                    result |-> o.result,
                                    propagated |-> o.propagated])
    /\ UNCHANGED <<returned, newest, last_call, ncalls, last_detect, runs, processed,
                   callers>>

NextFile ==
    \E input_path \in InputPaths, output_path \in OutputPaths :
        SanitizeFile(input_path, output_path)

SpecFile == InitFile /\ [][NextFile]_vars

LastFileCall == file_calls[Len(file_calls)]
FileCallMade == Len(file_calls') = Len(file_calls) + 1

C12_FailureLeavesOutputAlone ==
    [][(FileCallMade /\ ~LastFileCall'.result.success)
       => files'[LastFileCall'.output_path] = files[LastFileCall'.output_path]]_vars

\* C13: after a successful sanitize_file on an array of n records, the
\* output file parses as an array of n records, the i-th being the
\* sanitized form of the i-th record of the input, and records_processed
\* is n.
C13_OutputIsSanitizedArray ==
    [][(FileCallMade /\ LastFileCall'.result.success)
       => \E inp \in {json_load(files[LastFileCall'.input_path].content)},
             out \in {json_load(files'[LastFileCall'.output_path].content)} :
              /\ inp.ok /\ inp.value.kind = "list"
              /\ out.ok /\ out.value.kind = "list"
              /\ Len(out.value.items) = Len(inp.value.items)
              /\ LastFileCall'.result.records_processed = Len(inp.value.items)
              /\ \E expected \in {sanitize_records(
                                      Ctx(sanitizer, replacers[sanitizer.replacer],
                                          faker_random, <<>>),
                                      inp.value.items).value} :
                     \A i \in 1..Len(inp.value.items) :
                         /\ out.value.items[i] = expected[i]
                         /\ SameShape(inp.value.items[i], out.value.items[i])]_vars

C13_Witness ==
    /\ file_calls # <<>>
    /\ LastFileCall.result.success
    /\ LastFileCall.result.records_processed = 2
    /\ LastFileCall.result.pii_replacements_made = 4
    /\ LastFileCall.output_path = p_new_out
    /\ files[p_new_out].kind = "file"
    /\ files[p_new_out].content # c_records
    /\ Len(json_load(files[p_new_out].content).value.items) = 2

\* the candidates of PhoneDetector.detect in the order the loop visits them
PhoneSorted(text) ==
    LET all_matches == phone_all_matches(text)
    IN  StableSortByKey(all_matches,
            [i \in 1..Len(all_matches) |-> PhoneSortKey(all_matches[i])])
\* the accepted candidates when the loop reaches the k-th candidate
PhoneUsedBefore(text, k) == phone_select(SubSeq(PhoneSorted(text), 1, k - 1), 1, <<>>)
SpanLength(m) == m.end - m.start

\* C21: whenever PhoneDetector discards a candidate because it overlaps an
\* accepted candidate, the accepted candidate is at least as long as the
\* discarded one.
C21_DiscardedNotLonger ==
    last_detect.detector = PhoneDetector
    => LET sorted == PhoneSorted(last_detect.text)
       IN  \A k \in 1..Len(sorted) :
               LET used == PhoneUsedBefore(last_detect.text, k)
               IN  \A u \in 1..Len(used) :
                       SpansOverlap(sorted[k].start, sorted[k].end,
                                    used[u].start, used[u].end)
                       => SpanLength(used[u]) >= SpanLength(sorted[k])

(***************************************************************************)
(* Several Replacers in one process: any of them may be constructed or     *)
(* used at any time; each one's seed and lookups are logged.               *)
(***************************************************************************)
SharedInputs == {<<s_a_b_co, EMAIL>>, <<s_c_d_co, EMAIL>>, <<s_5551234567, PHONE>>}

InitShared ==
    \E seed \in Seeds \cup {NoSeed} :
        /\ faker_random \in {replacer_init(seed, r) : r \in RandomStates}
        /\ replacers = <<NewReplacerState>>
        /\ returned = <<EmptyMap>>
        /\ newest = <<"none">>
        /\ last_call = NoCall
        /\ ncalls = 0
        /\ last_detect = NoDetect
        /\ sanitizer = NoSanitizer
        /\ runs = <<NewRun(seed, <<>>)>>
        /\ processed = <<>>
        /\ files = NoFiles
        /\ file_calls = <<>>
        /\ callers = NoCallers

\* Replacer(seed), logged
Construct(seed) ==
    /\ Len(replacers) < MaxReplacers
    /\ faker_random' = replacer_init(seed, faker_random)
    /\ replacers' = Append(replacers, NewReplacerState)
    /\ returned' = Append(returned, EmptyMap)
    /\ newest' = Append(newest, "none")
    /\ runs' = Append(runs, NewRun(seed, <<>>))
    /\ UNCHANGED <<last_call, ncalls, last_detect, sanitizer, processed,
                   files, file_calls, callers>>

\* replacers[r].replace(DetectionResult(pii_type, original, ...)), logged
\* with whether the value was generated or came from the cache
ReplaceOn(r, original, pii_type) ==
    /\ ncalls < MaxCalls
    /\ \E res \in {replace(replacers[r], faker_random,
                           [original_value |-> original, pii_type |-> pii_type])} :
           /\ replacers' = [replacers EXCEPT ![r] = res.rep]
           /\ faker_random' = res.rnd
           /\ runs' = [runs EXCEPT ![r].calls =
                           Append(@, [original |-> original, pii_type |-> pii_type,
                                      value |-> res.value,
                                      generated |->
                                          <<original, pii_type>>
                                              \notin DOMAIN replacers[r].cache])]
    /\ ncalls' = ncalls + 1
    /\ UNCHANGED <<returned, newest, last_call, last_detect, sanitizer, processed,
                   files, file_calls, callers>>

NextShared ==
    \/ \E seed \in Seeds \cup {NoSeed} : Construct(seed)
    \/ \E r \in 1..Len(replacers), in \in SharedInputs : ReplaceOn(r, in[1], in[2])

SpecShared == InitShared /\ [][NextShared]_vars

\* the first-ever-seen lookups of a Replacer, in order, with the fakes
\* generated for them
GeneratedBy(run) == SelectSeq(run.calls, LAMBDA c : c.generated)

\* C22: two Replacers constructed with the same seed whose first-ever-seen
\* lookups are the same sequence have generated the same fakes, whatever
\* other Replacers were constructed or used in between.
C22_FakesDependOnOwnSeedAndLookups ==
    \A i, j \in 1..Len(runs) :
        (/\ runs[i].seed # NoSeed
         /\ runs[i].seed = runs[j].seed
         /\ Len(GeneratedBy(runs[i])) = Len(GeneratedBy(runs[j]))
         /\ \A k \in 1..Len(GeneratedBy(runs[i])) :
                /\ GeneratedBy(runs[i])[k].original = GeneratedBy(runs[j])[k].original
                /\ GeneratedBy(runs[i])[k].pii_type = GeneratedBy(runs[j])[k].pii_type)
        => \A k \in 1..Len(GeneratedBy(runs[i])) :
               GeneratedBy(runs[i])[k].value = GeneratedBy(runs[j])[k].value

\* the input file of the call parses as JSON and its top level is no array
NonArrayRoot(path) ==
    /\ files[path].kind = "file"
    /\ files[path].readable
    /\ \E data \in {json_load(files[path].content)} :
           data.ok /\ data.value.kind # "list"

\* C23: when the input file parses as JSON with a top level that is no
\* array, _read_json_file raises JSONParseError, not FileNotFoundError, and
\* sanitize_file returns success=false with a message saying that the root
\* must be an array.
C23_NonArrayIsParseError ==
    [][(FileCallMade /\ NonArrayRoot(LastFileCall'.input_path))
       => /\ _read_json_file(files, LastFileCall'.input_path).raised = JSONParseError
          /\ ~LastFileCall'.result.success
          /\ LastFileCall'.result.error_message \in
                 {<<"JSON root must be an array at line 1, column 1">>,
                  <<"Error reading file: JSON root must be an array at line 1, column 1">>}]_vars

(***************************************************************************)
(* Threads inside get_or_create_replacement of one Replacer.  The method   *)
(* takes no lock, so the threads interleave between its statements: the    *)
(* cache test, the generation of the fake, and the cache write.            *)
(***************************************************************************)
Callers == 1..NumCallers
Idle == [pc |-> "idle", original |-> <<>>, pii_type |-> "none",
         fake_value |-> <<>>, missed |-> FALSE, result |-> <<>>]
RaceInputs == {<<s_a_b_co, EMAIL>>, <<s_c_d_co, EMAIL>>, <<s_Al, FIRST_NAME>>}

InitRace ==
    \E seed \in Seeds \cup {NoSeed} :
        /\ faker_random \in {replacer_init(seed, r) : r \in RandomStates}
        /\ replacers = <<NewReplacerState>>
        /\ returned = <<EmptyMap>>
        /\ newest = <<"none">>
        /\ last_call = NoCall
        /\ ncalls = 0
        /\ last_detect = NoDetect
        /\ sanitizer = NoSanitizer
        /\ runs = <<>>
        /\ processed = <<>>
        /\ files = NoFiles
        /\ file_calls = <<>>
        /\ callers = [c \in Callers |-> Idle]

RaceFrame ==
    UNCHANGED <<returned, newest, last_call, ncalls, last_detect, sanitizer, runs,
                processed, files, file_calls>>

\* thread c enters get_or_create_replacement(original, pii_type)
Enter(c, original, pii_type) ==
    /\ callers[c].pc = "idle"
    /\ callers' = [callers EXCEPT ![c] =
                       [Idle EXCEPT !.pc = "test", !.original = original,
                                    !.pii_type = pii_type]]
    /\ UNCHANGED <<faker_random, replacers>>
    /\ RaceFrame

\* if cache_key in self._cache: return self._cache[cache_key]
TestCache(c) ==
    /\ callers[c].pc = "test"
    /\ LET cache_key == <<callers[c].original, callers[c].pii_type>>
       IN  callers' = [callers EXCEPT ![c] =
                           IF cache_key \in DOMAIN replacers[1].cache
                           THEN [@ EXCEPT !.pc = "returned",
                                          !.result = replacers[1].cache[cache_key]]
                           ELSE [@ EXCEPT !.pc = "generate", !.missed = TRUE]]
    /\ UNCHANGED <<faker_random, replacers>>
    /\ RaceFrame

\* fake_value = self._generate_...(original)
Generate(c) ==
    /\ callers[c].pc = "generate"
    /\ \E g \in {generate_by_type(replacers[1], faker_random, callers[c].original,
                                  callers[c].pii_type)} :
           /\ replacers' = [replacers EXCEPT ![1] = g.rep]
           /\ faker_random' = g.rnd
           /\ callers' = [callers EXCEPT ![c].pc = "write", ![c].fake_value = g.value]
    /\ RaceFrame

\* self._cache[cache_key] = fake_value; return fake_value
WriteCache(c) ==
    /\ callers[c].pc = "write"
    /\ replacers' = [replacers EXCEPT ![1].cache =
                         Put(@, <<callers[c].original, callers[c].pii_type>>,
                             callers[c].fake_value)]
    /\ callers' = [callers EXCEPT ![c].pc = "returned",
                                  ![c].result = callers[c].fake_value]
    /\ UNCHANGED faker_random
    /\ RaceFrame

NextRace ==
    \/ \E c \in Callers, in \in RaceInputs : Enter(c, in[1], in[2])
    \/ \E c \in Callers : TestCache(c)
    \/ \E c \in Callers : Generate(c)
    \/ \E c \in Callers : WriteCache(c)

SpecRace == InitRace /\ [][NextRace]_vars

\* C24: two threads whose first-sight lookups of the same (original,
\* pii_type) interleave receive the same fake, and the cache entry is the
\* one written first.
C24_InterleavedLookupsAgree ==
    \A c1, c2 \in Callers :
        (/\ callers[c1].pc = "returned" /\ callers[c2].pc = "returned"
         /\ callers[c1].original = callers[c2].original
         /\ callers[c1].pii_type = callers[c2].pii_type)
        => /\ callers[c1].result = callers[c2].result
           /\ replacers[1].cache[<<callers[c1].original, callers[c1].pii_type>>]
                  = callers[c1].result

\* the number of whitespace-separated tokens of s
TokenCount(s) ==
    Cardinality({i \in 1..Len(s) :
                     s[i] \notin Whitespace /\ (i = 1 \/ s[i - 1] \in Whitespace)})
\* the field name lowercased, without "_" and "-"
HintOf(field_name) ==
    LET kept == {i \in 1..Len(field_name) : field_name[i] \notin {"_", "-"}}
        RECURSIVE Pick(_)
        Pick(i) == IF i > Len(field_name) THEN <<>>
                   ELSE (IF i \in kept THEN <<char_lower(field_name[i])>> ELSE <<>>)
                        \o Pick(i + 1)
    IN  Pick(1)

C26_SpanHoldsOriginalValue ==
    last_detect.detector \in {EmailDetector, PhoneDetector, CreditCardDetector,
                              NameDetector}
    => \A i \in 1..Len(last_detect.results) :
           LET r == last_detect.results[i]
           IN  /\ 0 <= r.start_pos
               /\ r.start_pos < r.end_pos
               /\ r.end_pos <= Len(last_detect.text)
               /\ r.original_value =
                      [k \in 1..(r.end_pos - r.start_pos) |->
                           last_detect.text[r.start_pos + k]]

\* a result inside the text, with text before and after it
C26_Witness ==
    /\ last_detect.detector = CreditCardDetector
    /\ Len(last_detect.results) = 1
    /\ last_detect.results[1].start_pos > 0
    /\ last_detect.results[1].end_pos < Len(last_detect.text)

(***************************************************************************)
(* Field names during traversal: names under keys with and without a hint, *)
(* directly, in sequences and in nested mappings.                          *)
(***************************************************************************)
s_Bo_Al == <<"B","o"," ","A","l">>
\* {"first_name": ["Al Bo", ["Bo Al"]], "name": {"Last-Name": "Al", "notes": "Al Bo"}}
v_nested ==
    JDict(<<Item(k_first_name, JList(<<JStr(s_Al_Bo), JList(<<JStr(s_Bo_Al)>>)>>)),
            Item(k_name, JDict(<<Item(k_Last_Name, JStr(s_Al)),
                                 Item(k_notes, JStr(s_Al_Bo))>>))>>)
\* ["Al", {"name": "Al", "l": ["Al Bo"]}]
v_listed ==
    JList(<<JStr(s_Al), JDict(<<Item(k_name, JStr(s_Al)),
                                Item(k_l, JList(<<JStr(s_Al_Bo)>>))>>)>>)
FieldInputs ==
    {<<v_nested, t_empty>>, <<v_nested, k_notes>>, <<v_listed, k_Last_Name>>,
     <<JStr(s_Al_Bo), k_first_name>>}

NextFields == \E in \in FieldInputs : SanitizeValue(in[1], in[2])

SpecFields == InitSanitize /\ [][NextFields]_vars

RECURSIVE LookupsOfLeaves(_, _)
\* the (original, pii_type) lookups made when each leaf is scanned with the
\* field name listed for it
LookupsOfLeaves(leaves, k) ==
    IF k > Len(leaves) THEN <<>>
    ELSE LET ds == sort_detections(collect_detections(sanitizer.detectors, 1,
                                       leaves[k].text, leaves[k].field_name))
         IN  [i \in 1..Len(ds) |-> <<ds[i].original_value, ds[i].pii_type>>]
             \o LookupsOfLeaves(leaves, k + 1)

\* C27: every string leaf is scanned with the key of the nearest enclosing
\* mapping entry: a string under key k and every string in a sequence under
\* k, at any depth, with k; a string under a nested key k2 with k2.
C27_NearestKeyIsFieldName ==
    HasCall => LastSanitize.lookups =
                   LookupsOfLeaves(StringLeaves(LastSanitize.input,
                                                LastSanitize.field_name), 1)

\* "Al Bo" and "Bo Al" in sequences under first_name are looked up as first
\* names, "Al" under the nested key Last-Name as a last name
C27_Witness ==
    /\ HasCall
    /\ LastSanitize.input = v_nested
    /\ LastSanitize.field_name = k_notes
    /\ Len(LastSanitize.lookups) = 4
    /\ LastSanitize.lookups[1] = <<s_Al_Bo, FIRST_NAME>>
    /\ LastSanitize.lookups[2] = <<s_Bo_Al, FIRST_NAME>>
    /\ LastSanitize.lookups[3] = <<s_Al, LAST_NAME>>
    /\ LastSanitize.lookups[4] = <<s_Al_Bo, FULL_NAME>>


(***************************************************************************)
(* Name tokens across FIRST_NAME, LAST_NAME and FULL_NAME lookups.         *)
(***************************************************************************)
\* the fake a Replacer's name maps give a full name of two or more tokens
FromNameMaps(rep, original) ==
    LET words == str_split(original)
    IN  _preserve_case(original,
                       rep.first_name_map[str_lower(words[1])] \o <<" ">>
                       \o rep.last_name_map[str_lower(words[Len(words)])])

\* C28: after any sequence of replace calls on one Replacer, every cached
\* FULL_NAME fake of two or more tokens is the case-preserved first-name-map
\* entry of its first token, a space and the last-name-map entry of its last
\* token, and every cached fake of a FIRST_NAME (LAST_NAME) token is the
\* case-preserved first-name-map (last-name-map) entry of that token: a
\* token gets one fake, up to case, whichever kind of lookup met it first.
C28_NameTokensShareFakes ==
    \A r \in 1..Len(replacers) :
        \A k \in DOMAIN replacers[r].cache :
            LET rep == replacers[r]
                words == str_split(k[1])
                normalized == str_lower(k[1])
            IN  /\ (k[2] = FULL_NAME /\ Len(words) >= 2) =>
                       /\ str_lower(words[1]) \in DOMAIN rep.first_name_map
                       /\ str_lower(words[Len(words)]) \in DOMAIN rep.last_name_map
                       /\ rep.cache[k] = FromNameMaps(rep, k[1])
                /\ (k[2] = FIRST_NAME /\ IsToken(k[1])) =>
                       /\ normalized \in DOMAIN rep.first_name_map
                       /\ rep.cache[k] =
                              _preserve_case(k[1], rep.first_name_map[normalized])
                /\ (k[2] = LAST_NAME /\ IsToken(k[1])) =>
                       /\ normalized \in DOMAIN rep.last_name_map
                       /\ rep.cache[k] =
                              _preserve_case(k[1], rep.last_name_map[normalized])

\* a first-name token replaced standalone and as the first token of a full
\* name written in another case, in either order
C28_Witness ==
    \E k1, k2 \in DOMAIN replacers[1].cache :
        /\ k1[2] = FIRST_NAME /\ IsToken(k1[1])
        /\ k2[2] = FULL_NAME /\ Len(str_split(k2[1])) >= 2
        /\ str_lower(str_split(k2[1])[1]) = str_lower(k1[1])
        /\ CaseClass(k1[1]) # CaseClass(k2[1])
        /\ str_lower(replacers[1].cache[k2]) # replacers[1].cache[k2]


(***************************************************************************)
(* Cache hits.                                                             *)
(***************************************************************************)
\* the step is a replace call whose key is in the primary cache already
CacheHit ==
    /\ ncalls' = ncalls + 1
    /\ last_call'.rep # 0
    /\ <<last_call'.original, last_call'.pii_type>>
           \in DOMAIN replacers[last_call'.rep].cache

\* C29: a replace call that hits the primary cache leaves the primary cache,
\* the first-name map and the last-name map of every Replacer as they were
\* and draws nothing from the fake-value generator.
C29_CacheHitHasNoEffect ==
    [][CacheHit => (replacers' = replacers /\ faker_random' = faker_random)]_vars

\* a full name of two tokens looked up again, after another key was generated
C29_Witness ==
    /\ last_call.rep # 0
    /\ last_call.seen_before
    /\ last_call.interleaved
    /\ last_call.pii_type = FULL_NAME
    /\ Len(str_split(last_call.original)) >= 2


(***************************************************************************)
(* One Sanitizer reused for several sanitize_file calls.                   *)
(***************************************************************************)
RECURSIVE LeavesOfRecords(_, _)
\* the string leaves of the records from the k-th on, in processing order
LeavesOfRecords(records, k) ==
    IF k > Len(records) THEN <<>>
    ELSE StringLeaves(records[k], <<>>) \o LeavesOfRecords(records, k + 1)

\* the detections the configured detectors make in each string leaf
DetectionsPerLeaf(detectors, leaves) ==
    [i \in 1..Len(leaves) |->
        Len(collect_detections(detectors, 1, leaves[i].text, leaves[i].field_name))]

\* C30: when one Sanitizer is reused, every sanitize_file call returns the
\* counts of its own input only (the string fields of that input with a
\* detection, and the detections in them; 0 for a call that fails), whatever
\* the calls before it counted, and the entries of the Replacer's cache stay
\* as the earlier calls made them.
C30_CountsAreOfOwnCall ==
    [][FileCallMade =>
          /\ LastFileCall'.result.success =>
                 \E per_leaf \in {DetectionsPerLeaf(sanitizer.detectors,
                                       LeavesOfRecords(
                                           json_load(files[LastFileCall'.input_path]
                                                         .content).value.items, 1))} :
                     /\ LastFileCall'.result.pii_fields_detected =
                            Cardinality({i \in DOMAIN per_leaf : per_leaf[i] > 0})
                     /\ LastFileCall'.result.pii_replacements_made = SumSeq(per_leaf)
          /\ ~LastFileCall'.result.success =>
                 /\ LastFileCall'.result.pii_fields_detected = 0
                 /\ LastFileCall'.result.pii_replacements_made = 0
          /\ KeysKept(replacers[sanitizer.replacer].cache,
                      replacers'[sanitizer.replacer].cache)]_vars

\* the same records sanitized twice by one Sanitizer, to two output paths:
\* both calls report 4 fields and 4 replacements, and the second call found
\* every fake in the cache
C30_Witness ==
    /\ Len(file_calls) = 2
    /\ \A i \in 1..2 :
           /\ file_calls[i].result.success
           /\ file_calls[i].input_path = p_in
           /\ file_calls[i].result.pii_fields_detected = 4
           /\ file_calls[i].result.pii_replacements_made = 4
    /\ file_calls[1].output_path # file_calls[2].output_path
    /\ files[file_calls[1].output_path] = files[file_calls[2].output_path]
    /\ sanitizer.pii_replacements_made = 4

====
